---- MODULE Spec2Model ----
(***************************************************************************)
(* Offline cache-and-sync subsystem of ccsa-mobile.                        *)
(*                                                                         *)
(*   offlineCacheService  (src/unnamed/part_004)  -> SpecCache             *)
(*   offlineSyncService   (src/unnamed/part_005)  -> SpecSync              *)
(*                                                                         *)
(* Every async function is cut at its awaits: one action per resumption,   *)
(* which performs the awaited storage / network operation and runs the     *)
(* continuation up to the next await.                                      *)
(***************************************************************************)
EXTENDS Integers, Sequences, FiniteSets, TLC

VARIABLES
    netInfo,      \* the platform state NetInfo.fetch() / NetInfo events report
    now,          \* Date.now()
    cache,        \* AsyncStorage, the cache keys: key -> stored entry
    call,         \* fetchWithCache invocations in progress, per call slot
    refresh,      \* refreshInBackground task started by each call slot
    everCached,   \* history: key -> some value was stored under it
    farms,        \* AsyncStorage, '@offline_farms': the queue of offline farms
    lastSync,     \* AsyncStorage, '@last_sync'
    task,         \* async calls in progress (sync pass, retry, submit), per slot
    nextId,       \* the next farm submission; its offline id is this number
    created,      \* history: id -> number of successful farmService.createFarm
    rejects,      \* history: id -> number of rejected replays of the queued farm
    limits,       \* what the environment does at most in this behaviour
    listener,     \* the closure of the listener setupNetworkListener installs
    ops,          \* AsyncStorage['@offline_operations']: the generic operations
    opTask,       \* the generic-operation calls in progress
    opNextId,     \* the next generic operation to be saved
    store,        \* the farmer store and its fetchFarmers call in progress
    svc,          \* offlineCacheService: isOnline and its network monitor
    lastSyncJson, \* AsyncStorage['@cache_last_sync']
    ls            \* updateLastSync / getLastSync calls in progress, per slot

bookVars == <<lastSyncJson, ls>>
cacheVars == <<now, cache, call, refresh, everCached, store, svc, lastSyncJson, ls>>
opsVars == <<ops, opTask, opNextId>>
syncVars == <<farms, lastSync, task, nextId, created, rejects, limits, listener,
              ops, opTask, opNextId>>
vars == <<netInfo, now, cache, call, refresh, everCached,
          farms, lastSync, task, nextId, created, rejects, limits, listener,
          ops, opTask, opNextId, store, svc, lastSyncJson, ls>>

----
\* Bounds of the model.
MaxTime == 2
MaxTtl == 1
NumKeys == 1
NumCalls == 1

\* JavaScript null, for an expiry that is absent.
Null == -1

Keys == 1..NumKeys
Calls == 1..NumCalls
Times == 0..MaxTime
\* expiryMs arguments: null (the default), 0, or a positive duration.
Expiries == {Null} \cup (0..MaxTtl)
\* JSON payloads. "" stands for the falsy payloads (null, 0, false, "").
Payloads == {"", "a", "b"}

NetStates == [isConnected : BOOLEAN, isInternetReachable : {"true", "false", "null"}]

\* The states the platform is taken through: reachable, connected with
\* reachability not yet known, and disconnected.
NetSeen ==
    {[isConnected |-> TRUE, isInternetReachable |-> "true"],
     [isConnected |-> TRUE, isInternetReachable |-> "null"],
     [isConnected |-> FALSE, isInternetReachable |-> "false"]}

\* JavaScript truthiness of a number-or-null and of a payload.
TruthyNum(n) == n /= Null /\ n /= 0
TruthyData(d) == d /= ""

----
\* Sync queue service: data.

\* Bounds of the model.
MaxFarms == 2
NumTasks == 2

Ids == 1..MaxFarms
Tasks == 1..NumTasks
\* Slot 1 is left to the passes of syncAllFarms (the network listener's
\* handler, AddFarmScreen's auto-sync effect, takes the lowest free slot); the
\* user's actions 'Retry' and the farm form's submit run in the other slots.
UiTasks == Tasks \ {1}

\* f.retryCount < 5 // Max 5 retry attempts
MaxRetries == 5

\* The history counter `created` stops at CountCap.
CountCap == 2

\* The environment of SpecSync: at most MaxFarms farms are submitted and the
\* remote API rejects at most FewRejects replays.
FewRejects == 1

\* The environment of SpecRetry: at most RetryFarms farms are submitted and
\* the remote API rejects at most MaxRejects replays.
RetryFarms == 1
MaxRejects == 6

\* setupNetworkListener: let isFirstConnection = true. prev (history): what
\* the last event delivered to the listener reported ("none" before any).
NewListener == [isFirstConnection |-> TRUE, prev |-> "none"]

\* Bounds of the generic operations: operations saved, calls in progress.
MaxOps == 2
NumOpTasks == 2

OpIds == 1..MaxOps
OpTasks == 1..NumOpTasks

\* The time synced operations are kept: 24 * 60 * 60 * 1000 ms, in ticks.
Retention == 1

\* The operation saveOfflineOperation builds. The id stands for what it
\* carries (type, entityType, data); syncedAt is absent until it is synced.
NewOp(id) ==
    [id |-> id, status |-> "pending", retryCount |-> 0, lastError |-> "null",
     syncedAt |-> Null]

\* A generic-operation call slot. op: the call running in it; pc: the await
\* it stands at; id: the operation it works on; copy: the array it is about
\* to write; pending, i: syncAllOperations' selection and loop position;
\* synced, failed: its counters; farmsTask: for a syncAll, the slot of the
\* syncAllFarms pass it awaits or has awaited.
IdleOpTask ==
    [op |-> "none", pc |-> "idle", id |-> 0, copy |-> <<>>, pending |-> <<>>,
     i |-> 0, synced |-> 0, failed |-> 0, farmsTask |-> 0]

InitOpsVars ==
    /\ ops = <<>>
    /\ opTask = [o \in OpTasks |-> IdleOpTask]
    /\ opNextId = 1

\* A call slot. op: the call running in it; pc: the await it stands at;
\* farm: the offline id it works on; st: the status updateFarmStatus was
\* called with; pendingFarms, i, results: syncAllFarms' locals (the ids of the
\* selected farms, the loop position, the results array); copy: the array a
\* read-modify-write has read; pending, result: what the call returns;
\* invoked (history): the ids this call passed to farmService.createFarm;
\* trigger (history): "none", or for a call made by the network listener what
\* the listener had observed before the event: "up" (offline), "same"
\* (online) or "first" (nothing); readFailed (history): the latest
\* getOfflineFarms of the call caught a read error and returned [].
IdleTask ==
    [op |-> "none", pc |-> "idle", farm |-> 0, st |-> "", pendingFarms |-> <<>>,
     i |-> 0, copy |-> <<>>, results |-> <<>>, pending |-> 0, result |-> "none",
     invoked |-> <<>>, trigger |-> "none", readFailed |-> FALSE]

----
\* Cache service: pure parts.

NoEntry == [present |-> FALSE, data |-> "", timestamp |-> 0, expiryMs |-> Null]
Entry(d, t, e) == [present |-> TRUE, data |-> d, timestamp |-> t, expiryMs |-> e]

\* state.isConnected && state.isInternetReachable !== false
cacheOnline(s) == s.isConnected /\ s.isInternetReachable /= "false"

\* const maxAge = expiryMs || cached.expiryMs
maxAge(expiryMs, cached) == IF TruthyNum(expiryMs) THEN expiryMs ELSE cached.expiryMs

\* A fault of isExpired: an entry whose age has reached maxAge is expired.
isExpired_atMaxAge(cached, expiryMs, t) ==
    /\ TruthyNum(maxAge(expiryMs, cached))
    /\ t - cached.timestamp >= maxAge(expiryMs, cached)

\* if (maxAge && age > maxAge)
isExpired(cached, expiryMs, t) ==
    /\ TruthyNum(maxAge(expiryMs, cached))
    /\ t - cached.timestamp > maxAge(expiryMs, cached)

NoResult == [kind |-> "none", val |-> ""]
Value(d) == [kind |-> "value", val |-> d]
Error(m) == [kind |-> "error", val |-> m]

ErrNoCache == "No cached data available offline"
ErrFetch == "fetch rejected"

\* What a call's getItem found: whether an entry was stored, and its data.
NoCached == [present |-> FALSE, data |-> ""]
Cached(entry) == [present |-> entry.present, data |-> entry.data]

\* A fetchWithCache call. cached: what its latest getItem found; fresh
\* (history): the entry its first getCache returned, when it returned one;
\* at (history): the time of its latest getItem;
\* rejected, fetches, writes (history): whether its fetchFunction rejected,
\* how often the call invoked fetchFunction and wrote AsyncStorage.
IdleCall ==
    [pc |-> "idle", key |-> 1, expiryMs |-> Null, forceRefresh |-> FALSE,
     online |-> FALSE, cached |-> NoCached, data |-> "", result |-> NoResult,
     rejected |-> FALSE, fetches |-> 0, writes |-> 0, fresh |-> NoCached,
     at |-> 0]

NoRefresh == [pc |-> "none", key |-> 1, expiryMs |-> Null, data |-> ""]

\* CACHE_KEYS.FARMERS, '@cache_farmers'
FarmersKey == 1
\* CACHE_EXPIRY.FARMERS and the expiry fetchFarmers passes: 24 hours
FarmersExpiry == MaxTtl
\* The farmers arrays fetchFarmers' fetchFunction resolves to (an array,
\* also the empty one, is truthy).
FarmerLists == {"a", "b"}
\* farmers: []
NoFarmers == "[]"

\* offlineCacheService as created: isOnline: true, no NetInfo listener.
\* listening: initialize() has subscribed; init: the await initialize()
\* stands at; event (history): what the last event delivered to the listener
\* was, "up" (recorded offline, found online), "down", "stayOn", "stayOff",
\* or "none" before any; fired (history): that event called syncAll.
NewService ==
    [isOnline |-> TRUE, listening |-> FALSE, init |-> "none", event |-> "none",
     fired |-> FALSE]

\* Bound: updateLastSync / getLastSync calls in progress.
NumLsCalls == 2
LsCalls == 1..NumLsCalls

\* The types whose last sync is recorded.
LsTypes == {"farmers", "full_sync"}

\* A parsed JSON object: a function from the properties it has to their
\* values. {} has none.
EmptyObj == [x \in {} |-> 0]

\* What AsyncStorage holds under a key: nothing, or the JSON of an object.
NoJson == [present |-> FALSE, obj |-> EmptyObj]
Json(o) == [present |-> TRUE, obj |-> o]

\* An updateLastSync / getLastSync call slot. op: "update" or "get"; type:
\* its argument; pc: the await it stands at; obj: the object updateLastSync
\* is about to write; result: what getLastSync returns; by (history): "syncAll"
\* for the updateLastSync('full_sync') of the monitor's syncAll; stored
\* (history): what the key held when the call read it.
IdleLs ==
    [op |-> "none", type |-> "", pc |-> "idle", obj |-> EmptyObj, result |-> Null,
     by |-> "", stored |-> NoJson]

ErrAuth == "User not authenticated"
UsingOffline == "Using offline data"

\* The farmer store: its state farmers, loading, error, isOffline, and its
\* fetchFarmers call: pc: the await it stands at; slot: the fetchWithCache
\* call it awaits; caught: the message of the error its catch holds;
\* result: what the call settles with.
IdleStore ==
    [farmers |-> NoFarmers, loading |-> FALSE, error |-> "null",
     isOffline |-> FALSE, pc |-> "idle", slot |-> 0, caught |-> "",
     result |-> NoResult]

----
\* Cache service: actions.

InitSyncVars ==
    /\ limits = [farms |-> MaxFarms, rejects |-> FewRejects]
    /\ listener = NewListener
    /\ InitOpsVars
    /\ farms = <<>>
    /\ lastSync = "null"
    /\ task = [t \in Tasks |-> IdleTask]
    /\ nextId = 1
    /\ created = [i \in Ids |-> 0]
    /\ rejects = [i \in Ids |-> 0]

InitCacheVars ==
    /\ now = 0
    /\ cache = [k \in Keys |-> NoEntry]
    /\ call = [c \in Calls |-> IdleCall]
    /\ refresh = [c \in Calls |-> NoRefresh]
    /\ everCached = [k \in Keys |-> FALSE]
    /\ store = IdleStore
    /\ svc = NewService
    /\ lastSyncJson = NoJson
    /\ ls = [l \in LsCalls |-> IdleLs]

InitCache ==
    /\ netInfo \in NetSeen
    /\ InitSyncVars
    /\ InitCacheVars

\* fetchWithCache(cacheKey, fetchFunction, expiryMs, forceRefresh) is called:
\* it runs to its first await, NetInfo.fetch() inside checkOnline.
fetchWithCache(c, k, e, f) ==
    /\ call[c].pc = "idle"
    /\ refresh[c].pc = "none"
    /\ call' = [call EXCEPT ![c] =
                  [IdleCall EXCEPT !.pc = "checkOnline", !.key = k,
                                   !.expiryMs = e, !.forceRefresh = f]]
    /\ UNCHANGED <<netInfo, now, cache, refresh, everCached>>
    /\ UNCHANGED <<syncVars, store, svc, bookVars>>

\* The continuation of a call that has to fetch: fetchFunction() is invoked.
StartFetch(r) == [r EXCEPT !.pc = "fetching", !.fetches = @ + 1]

\* A fault of checkOnline: forceRefresh is ignored, an online call always
\* looks into the cache first.
checkOnline_ignoreForce(c) ==
    /\ call[c].pc = "checkOnline"
    /\ call' = [call EXCEPT ![c] =
         LET r == [@ EXCEPT !.online = cacheOnline(netInfo)] IN
         IF ~cacheOnline(netInfo) THEN [r EXCEPT !.pc = "getOffline"]
         ELSE [r EXCEPT !.pc = "getOnline"]]
    /\ UNCHANGED <<netInfo, now, cache, refresh, everCached>>
    /\ svc' = [svc EXCEPT !.isOnline = cacheOnline(netInfo)]
    /\ UNCHANGED <<syncVars, store, bookVars>>

\* checkOnline resolves; fetchWithCache continues to its next await.
checkOnline(c) ==
    /\ call[c].pc = "checkOnline"
    /\ call' = [call EXCEPT ![c] =
         LET r == [@ EXCEPT !.online = cacheOnline(netInfo)] IN
         IF ~cacheOnline(netInfo) THEN [r EXCEPT !.pc = "getOffline"]
         ELSE IF ~r.forceRefresh THEN [r EXCEPT !.pc = "getOnline"]
         ELSE StartFetch(r)]
    /\ UNCHANGED <<netInfo, now, cache, refresh, everCached>>
    /\ svc' = [svc EXCEPT !.isOnline = cacheOnline(netInfo)]
    /\ UNCHANGED <<syncVars, store, bookVars>>

\* What getCache(key, expiryMs) does when AsyncStorage.getItem resolves:
\* "miss" (nothing stored), "expired" (goes on to removeItem), or "hit".
getCacheOutcome(cached, expiryMs, t) ==
    IF ~cached.present THEN "miss"
    ELSE IF isExpired(cached, expiryMs, t) THEN "expired"
    ELSE "hit"

\* The expiry argument of the getCache call a pc stands in.
getCacheArg(r) == IF r.pc = "getFallback" THEN Null ELSE r.expiryMs

\* A fault of afterGetCache: the offline branch does not throw on a miss
\* and falls through to the fetch.
afterGetCache_noThrow(r, got, c) ==
    LET truthy == got.present /\ TruthyData(got.data) IN
    CASE r.pc \in {"getOffline", "rmOffline"} ->
           IF truthy THEN [r EXCEPT !.pc = "done", !.result = Value(got.data)]
           ELSE StartFetch(r)
      [] r.pc \in {"getOnline", "rmOnline"} ->
           IF truthy
           THEN [r EXCEPT !.pc = "done", !.result = Value(got.data),
                          !.fetches = @ + 1]
           ELSE StartFetch(r)
      [] r.pc \in {"getFallback", "rmFallback"} ->
           IF truthy THEN [r EXCEPT !.pc = "done", !.result = Value(got.data)]
           ELSE [r EXCEPT !.pc = "done", !.result = Error(ErrFetch)]

\* A fault of afterGetCache: an online hit returns the cached data and starts
\* no refresh.
afterGetCache_noRefresh(r, got, c) ==
    LET truthy == got.present /\ TruthyData(got.data) IN
    CASE r.pc \in {"getOffline", "rmOffline"} ->
           IF truthy THEN [r EXCEPT !.pc = "done", !.result = Value(got.data)]
           ELSE [r EXCEPT !.pc = "done", !.result = Error(ErrNoCache)]
      [] r.pc \in {"getOnline", "rmOnline"} ->
           IF truthy
           THEN [r EXCEPT !.pc = "done", !.result = Value(got.data)]
           ELSE StartFetch(r)
      [] r.pc \in {"getFallback", "rmFallback"} ->
           IF truthy THEN [r EXCEPT !.pc = "done", !.result = Value(got.data)]
           ELSE [r EXCEPT !.pc = "done", !.result = Error(ErrFetch)]

\* fetchWithCache after getCache returned `got` (an entry's data, or null as
\* NoEntry) at the call site r.pc.
afterGetCache(r, got, c) ==
    LET truthy == got.present /\ TruthyData(got.data) IN
    CASE r.pc \in {"getOffline", "rmOffline"} ->
           IF truthy THEN [r EXCEPT !.pc = "done", !.result = Value(got.data)]
           ELSE [r EXCEPT !.pc = "done", !.result = Error(ErrNoCache)]
      [] r.pc \in {"getOnline", "rmOnline"} ->
           IF truthy
           THEN [r EXCEPT !.pc = "done", !.result = Value(got.data),
                          !.fetches = @ + 1]
           ELSE StartFetch(r)
      [] r.pc \in {"getFallback", "rmFallback"} ->
           IF truthy THEN [r EXCEPT !.pc = "done", !.result = Value(got.data)]
           ELSE [r EXCEPT !.pc = "done", !.result = Error(ErrFetch)]

\* A fault of spawnRefresh: no refresh is started.
spawnRefresh_never(r, got) == NoRefresh

\* refreshInBackground is started on an online cache hit.
spawnRefresh(r, got) ==
    IF r.pc = "getOnline" /\ got.present /\ TruthyData(got.data)
    THEN [pc |-> "fetching", key |-> r.key, expiryMs |-> r.expiryMs, data |-> ""]
    ELSE NoRefresh

RmPc(pc) ==
    CASE pc = "getOffline" -> "rmOffline"
      [] pc = "getOnline" -> "rmOnline"
      [] pc = "getFallback" -> "rmFallback"

\* getCache: AsyncStorage.getItem resolves.
getCache(c) ==
    /\ call[c].pc \in {"getOffline", "getOnline", "getFallback"}
    /\ LET r == call[c]
           cached == cache[r.key]
           out == getCacheOutcome(cached, getCacheArg(r), now)
           r1 == [r EXCEPT !.cached = Cached(cached), !.at = now,
                           !.fresh = IF out = "hit" /\ r.pc /= "getFallback"
                                     THEN Cached(cached) ELSE @]
       IN  /\ call' = [call EXCEPT ![c] =
                 IF out = "expired" THEN [r1 EXCEPT !.pc = RmPc(r.pc)]
                 ELSE afterGetCache(r1, IF out = "hit" THEN cached ELSE NoEntry, c)]
           /\ refresh' = [refresh EXCEPT ![c] =
                 IF out = "hit" THEN spawnRefresh(r, cached) ELSE NoRefresh]
    /\ UNCHANGED <<netInfo, now, cache, everCached>>
    /\ UNCHANGED <<syncVars, store, svc, bookVars>>

\* getCache, expired entry: AsyncStorage.removeItem resolves, getCache
\* returns null.
getCacheRemove(c) ==
    /\ call[c].pc \in {"rmOffline", "rmOnline", "rmFallback"}
    /\ cache' = [cache EXCEPT ![call[c].key] = NoEntry]
    /\ call' = [call EXCEPT ![c] =
                  afterGetCache([@ EXCEPT !.writes = @ + 1], NoEntry, c)]
    /\ UNCHANGED <<netInfo, now, refresh, everCached>>
    /\ UNCHANGED <<syncVars, store, svc, bookVars>>

\* await fetchFunction() settles: it resolves to a payload or rejects.
fetchSettles(c) ==
    /\ call[c].pc = "fetching"
    /\ \/ \E d \in Payloads :
            call' = [call EXCEPT ![c] = [@ EXCEPT !.pc = "setCache", !.data = d]]
       \/ call' = [call EXCEPT ![c] =
                     [@ EXCEPT !.pc = "getFallback", !.rejected = TRUE]]
    /\ UNCHANGED <<netInfo, now, cache, refresh, everCached>>
    /\ UNCHANGED <<syncVars, store, svc, bookVars>>

\* setCache(key, data, expiryMs): AsyncStorage.setItem resolves.
setCache(k, d, e) ==
    /\ cache' = [cache EXCEPT ![k] = Entry(d, now, e)]
    /\ everCached' = [everCached EXCEPT ![k] = TRUE]

\* A fault of fetchStore: the fetched data is returned without being stored.
fetchStore_noStore(c) ==
    /\ call[c].pc = "setCache"
    /\ call' = [call EXCEPT ![c] =
                  [@ EXCEPT !.pc = "done", !.result = Value(call[c].data)]]
    /\ UNCHANGED <<netInfo, now, cache, refresh, everCached>>
    /\ UNCHANGED <<syncVars, store, svc, bookVars>>

\* fetchWithCache: await this.setCache(...) resolves; return data.
fetchStore(c) ==
    /\ call[c].pc = "setCache"
    /\ setCache(call[c].key, call[c].data, call[c].expiryMs)
    /\ call' = [call EXCEPT ![c] =
                  [@ EXCEPT !.pc = "done", !.result = Value(call[c].data),
                            !.writes = @ + 1]]
    /\ UNCHANGED <<netInfo, now, refresh>>
    /\ UNCHANGED <<syncVars, store, svc, bookVars>>

\* The caller takes the result; the call slot is free again.
fetchReturn(c) ==
    /\ call[c].pc = "done"
    /\ call' = [call EXCEPT ![c] = IdleCall]
    /\ UNCHANGED <<netInfo, now, cache, refresh, everCached>>
    /\ UNCHANGED <<syncVars, store, svc, bookVars>>

\* refreshInBackground: await fetchFunction() settles.
refreshSettles(c) ==
    /\ refresh[c].pc = "fetching"
    /\ \/ \E d \in Payloads :
            refresh' = [refresh EXCEPT ![c] = [@ EXCEPT !.pc = "setCache", !.data = d]]
       \/ refresh' = [refresh EXCEPT ![c] = NoRefresh]
    /\ UNCHANGED <<netInfo, now, cache, call, everCached>>
    /\ UNCHANGED <<syncVars, store, svc, bookVars>>

\* refreshInBackground: await this.setCache(...) resolves.
refreshStore(c) ==
    /\ refresh[c].pc = "setCache"
    /\ setCache(refresh[c].key, refresh[c].data, refresh[c].expiryMs)
    /\ refresh' = [refresh EXCEPT ![c] = NoRefresh]
    /\ UNCHANGED <<netInfo, now, call>>
    /\ UNCHANGED <<syncVars, store, svc, bookVars>>

\* A direct setCache(key, data, expiryMs) by another caller.
setCacheCall(k, d, e) ==
    /\ setCache(k, d, e)
    /\ UNCHANGED <<netInfo, now, call, refresh>>
    /\ UNCHANGED <<syncVars, store, svc, bookVars>>

\* clearCache(key).
clearCache(k) ==
    /\ cache[k].present
    /\ cache' = [cache EXCEPT ![k] = NoEntry]
    /\ UNCHANGED <<netInfo, now, call, refresh, everCached>>
    /\ UNCHANGED <<syncVars, store, svc, bookVars>>

\* Time passes.
Tick ==
    /\ now < MaxTime
    /\ now' = now + 1
    /\ UNCHANGED <<netInfo, cache, call, refresh, everCached>>
    /\ UNCHANGED <<syncVars, store, svc, bookVars>>

\* The platform's connectivity changes.
NetChange ==
    /\ \E s \in NetSeen : s /= netInfo /\ netInfo' = s
    /\ UNCHANGED cacheVars
    /\ UNCHANGED <<syncVars, store, svc, bookVars>>

NextCache ==
    \/ \E c \in Calls, k \in Keys, e \in Expiries, f \in BOOLEAN :
          fetchWithCache(c, k, e, f)
    \/ \E c \in Calls : checkOnline(c)
    \/ \E c \in Calls : getCache(c)
    \/ \E c \in Calls : getCacheRemove(c)
    \/ \E c \in Calls : fetchSettles(c)
    \/ \E c \in Calls : fetchStore(c)
    \/ \E c \in Calls : fetchReturn(c)
    \/ \E c \in Calls : refreshSettles(c)
    \/ \E c \in Calls : refreshStore(c)
    \/ \E k \in Keys, d \in Payloads, e \in Expiries : setCacheCall(k, d, e)
    \/ \E k \in Keys : clearCache(k)
    \/ Tick
    \/ NetChange

SpecCache == InitCache /\ [][NextCache]_vars

----
\* Farmer store: fetchFarmers.

\* fetchFarmers(forceRefresh) is called: set({loading: true, error: null});
\* without a signed-in user it throws and its catch awaits
\* getCachedFarmers(); otherwise it awaits fetchWithCache('@cache_farmers',
\* fetchFunction, 24 h, forceRefresh), which runs to its first await.
fetchFarmers(c, f, authed) ==
    /\ store.pc = "idle"
    /\ call[c].pc = "idle"
    /\ refresh[c].pc = "none"
    /\ IF authed
       THEN /\ store' = [store EXCEPT !.loading = TRUE, !.error = "null",
                                      !.pc = "fetchWithCache", !.slot = c,
                                      !.caught = "", !.result = NoResult]
            /\ call' = [call EXCEPT ![c] =
                  [IdleCall EXCEPT !.pc = "checkOnline", !.key = FarmersKey,
                                   !.expiryMs = FarmersExpiry, !.forceRefresh = f]]
       ELSE /\ store' = [store EXCEPT !.loading = TRUE, !.error = "null",
                                      !.pc = "getCachedFarmers", !.slot = 0,
                                      !.caught = ErrAuth, !.result = NoResult]
            /\ UNCHANGED call
    /\ UNCHANGED <<netInfo, now, cache, refresh, everCached>>
    /\ UNCHANGED <<syncVars, svc, bookVars>>

\* fetchFarmers' fetchFunction settles inside fetchWithCache: it resolves to
\* a farmers array or farmerService.getFarmers rejects.
farmersFetchSettles(c) ==
    /\ call[c].pc = "fetching"
    /\ \/ \E d \in FarmerLists :
            call' = [call EXCEPT ![c] = [@ EXCEPT !.pc = "setCache", !.data = d]]
       \/ call' = [call EXCEPT ![c] =
                     [@ EXCEPT !.pc = "getFallback", !.rejected = TRUE]]
    /\ UNCHANGED <<netInfo, now, cache, refresh, everCached, store>>
    /\ UNCHANGED <<syncVars, svc, bookVars>>

\* The same fetchFunction settles inside refreshInBackground.
farmersRefreshSettles(c) ==
    /\ refresh[c].pc = "fetching"
    /\ \/ \E d \in FarmerLists :
            refresh' = [refresh EXCEPT ![c] = [@ EXCEPT !.pc = "setCache", !.data = d]]
       \/ refresh' = [refresh EXCEPT ![c] = NoRefresh]
    /\ UNCHANGED <<netInfo, now, cache, call, everCached, store>>
    /\ UNCHANGED <<syncVars, svc, bookVars>>

\* fetchFarmers: await fetchWithCache(...) settles. Resolved: it goes on to
\* await checkOnline(). Rejected: the catch awaits getCachedFarmers().
fetchFarmersSettles ==
    /\ store.pc = "fetchWithCache"
    /\ call[store.slot].pc = "done"
    /\ store' = IF call[store.slot].result.kind = "value"
                THEN [store EXCEPT !.pc = "checkOnline",
                                   !.result = call[store.slot].result]
                ELSE [store EXCEPT !.pc = "getCachedFarmers",
                                   !.caught = call[store.slot].result.val]
    /\ call' = [call EXCEPT ![store.slot] = IdleCall]
    /\ UNCHANGED <<netInfo, now, cache, refresh, everCached>>
    /\ UNCHANGED <<syncVars, svc, bookVars>>

\* fetchFarmers: await checkOnline() resolves;
\* set({farmers, loading: false, isOffline: !isOnline}); return farmers.
fetchFarmersCheckOnline ==
    /\ store.pc = "checkOnline"
    /\ store' = [store EXCEPT !.farmers = store.result.val, !.loading = FALSE,
                              !.isOffline = ~cacheOnline(netInfo), !.pc = "done"]
    /\ UNCHANGED <<netInfo, now, cache, call, refresh, everCached>>
    /\ svc' = [svc EXCEPT !.isOnline = cacheOnline(netInfo)]
    /\ UNCHANGED <<syncVars, bookVars>>

\* fetchFarmers' catch after getCachedFarmers() returned the farmers `got`.
usingOfflineData(st, got) ==
    [st EXCEPT !.farmers = got, !.loading = FALSE, !.isOffline = TRUE,
               !.error = UsingOffline, !.pc = "done", !.result = Value(got)]

\* fetchFarmers' catch after getCachedFarmers() returned null: the original
\* error is rethrown.
noDataAvailable(st) ==
    [st EXCEPT !.farmers = NoFarmers, !.loading = FALSE, !.isOffline = TRUE,
               !.error = st.caught, !.pc = "done", !.result = Error(st.caught)]

\* getCachedFarmers = getCache(CACHE_KEYS.FARMERS, CACHE_EXPIRY.FARMERS):
\* AsyncStorage.getItem resolves.
getCachedFarmers ==
    /\ store.pc = "getCachedFarmers"
    /\ LET cached == cache[FarmersKey]
           out == getCacheOutcome(cached, FarmersExpiry, now)
       IN  store' =
             IF out = "expired" THEN [store EXCEPT !.pc = "rmCachedFarmers"]
             ELSE IF out = "hit" /\ TruthyData(cached.data)
             THEN usingOfflineData(store, cached.data)
             ELSE noDataAvailable(store)
    /\ UNCHANGED <<netInfo, now, cache, call, refresh, everCached>>
    /\ UNCHANGED <<syncVars, svc, bookVars>>

\* getCachedFarmers, expired entry: AsyncStorage.removeItem resolves and
\* getCache returns null.
getCachedFarmersRemove ==
    /\ store.pc = "rmCachedFarmers"
    /\ cache' = [cache EXCEPT ![FarmersKey] = NoEntry]
    /\ store' = noDataAvailable(store)
    /\ UNCHANGED <<netInfo, now, call, refresh, everCached>>
    /\ UNCHANGED <<syncVars, svc, bookVars>>

\* The component that called fetchFarmers takes its outcome; the store keeps
\* farmers, loading, error and isOffline.
fetchFarmersReturn ==
    /\ store.pc = "done"
    /\ store' = [store EXCEPT !.pc = "idle", !.slot = 0, !.caught = "",
                              !.result = NoResult]
    /\ UNCHANGED <<netInfo, now, cache, call, refresh, everCached>>
    /\ UNCHANGED <<syncVars, svc, bookVars>>

NextStore ==
    \/ \E c \in Calls, f \in BOOLEAN, authed \in BOOLEAN : fetchFarmers(c, f, authed)
    \/ \E c \in Calls : checkOnline(c)
    \/ \E c \in Calls : getCache(c)
    \/ \E c \in Calls : getCacheRemove(c)
    \/ \E c \in Calls : farmersFetchSettles(c)
    \/ \E c \in Calls : fetchStore(c)
    \/ \E c \in Calls : farmersRefreshSettles(c)
    \/ \E c \in Calls : refreshStore(c)
    \/ fetchFarmersSettles
    \/ fetchFarmersCheckOnline
    \/ getCachedFarmers
    \/ getCachedFarmersRemove
    \/ fetchFarmersReturn
    \/ Tick
    \/ NetChange

SpecStore == InitCache /\ [][NextStore]_vars

----
\* Cache service: the network monitor and the last-sync bookkeeping.

\* obj[f] of JavaScript: the value of a property, or undefined.
NoProp == [has |-> FALSE, val |-> 0]
propOf(o, f) == IF f \in DOMAIN o THEN [has |-> TRUE, val |-> o[f]] ELSE NoProp

\* obj[f] = v
withProp(o, f, v) == [x \in DOMAIN o \cup {f} |-> IF x = f THEN v ELSE o[x]]

\* getCache(CACHE_KEYS.LAST_SYNC, null) when getItem resolves to json:
\* null when nothing is stored; else, the parsed object having no truthy
\* expiryMs, cached.data.
getCacheLastSync(json) ==
    IF ~json.present THEN NoProp
    ELSE IF propOf(json.obj, "expiryMs").has /\ propOf(json.obj, "expiryMs").val > 0
              /\ propOf(json.obj, "timestamp").has
              /\ now - propOf(json.obj, "timestamp").val > propOf(json.obj, "expiryMs").val
         THEN NoProp
    ELSE propOf(json.obj, "data")

\* (await this.getCache(CACHE_KEYS.LAST_SYNC, null)) || {}: the data
\* property of what is stored when getCache returns one, else {}.
lastSyncOf(json) ==
    IF getCacheLastSync(json).has THEN getCacheLastSync(json).val ELSE EmptyObj

\* lastSync[type] || null
lastSyncOr(o, type) ==
    IF propOf(o, type).has /\ TruthyNum(propOf(o, type).val)
    THEN propOf(o, type).val ELSE Null

\* The slot the next call runs in.
FreeLs == CHOOSE l \in LsCalls : ls[l].op = "none" /\ \A u \in 1..(l - 1) : ls[u].op /= "none"

\* updateLastSync(type) runs to the await of getItem inside getCache.
StartUpdate(type, by) ==
    [IdleLs EXCEPT !.op = "update", !.type = type, !.pc = "lsRead", !.by = by]

\* initialize() is called: NetInfo.addEventListener installs the listener
\* and initialize awaits NetInfo.fetch(). (One subscription is followed.)
initialize ==
    /\ ~svc.listening
    /\ svc' = [svc EXCEPT !.listening = TRUE, !.init = "fetch"]
    /\ UNCHANGED <<netInfo, now, cache, call, refresh, everCached, store, bookVars>>
    /\ UNCHANGED syncVars

\* initialize: await NetInfo.fetch() resolves; this.isOnline is set.
initializeFetch ==
    /\ svc.init = "fetch"
    /\ svc' = [svc EXCEPT !.init = "none", !.isOnline = cacheOnline(netInfo)]
    /\ UNCHANGED <<netInfo, now, cache, call, refresh, everCached, store, bookVars>>
    /\ UNCHANGED syncVars

\* The kind of an event that finds the device online or not (on) while the
\* service had it recorded as online or not (was).
eventKind(was, on) ==
    IF on THEN (IF was THEN "stayOn" ELSE "up")
    ELSE (IF was THEN "down" ELSE "stayOff")

\* The listener of initialize: const wasOffline = !this.isOnline; ...;
\* if (!wasOffline && this.isOnline) this.syncAll()
monitorFires(was, on) ==
    LET wasOffline == ~was IN ~wasOffline /\ on

\* NetInfo delivers a connectivity event with state s to the listener of
\* initialize: this.isOnline is set, and when the handler calls syncAll(),
\* that runs to the await inside updateLastSync('full_sync').
monitorEvent(s) ==
    /\ svc.listening
    /\ netInfo' = s
    /\ LET fires == monitorFires(svc.isOnline, cacheOnline(s)) IN
       /\ svc' = [svc EXCEPT !.isOnline = cacheOnline(s),
                             !.event = eventKind(svc.isOnline, cacheOnline(s)),
                             !.fired = fires]
       /\ IF fires
          THEN /\ \E l \in LsCalls : ls[l].op = "none"
               /\ ls' = [ls EXCEPT ![FreeLs] = StartUpdate("full_sync", "syncAll")]
          ELSE UNCHANGED ls
    /\ UNCHANGED <<now, cache, call, refresh, everCached, store, lastSyncJson>>
    /\ UNCHANGED syncVars

\* checkOnline() called on its own (prefetchCommonData, a screen): await
\* NetInfo.fetch() resolves and this.isOnline is set.
checkOnlineAlone ==
    /\ svc' = [svc EXCEPT !.isOnline = cacheOnline(netInfo)]
    /\ svc' /= svc
    /\ UNCHANGED <<netInfo, now, cache, call, refresh, everCached, store, bookVars>>
    /\ UNCHANGED syncVars

\* updateLastSync(type) is called (by cacheFarmers, cacheFarmsByFarmer).
updateLastSync(type) ==
    /\ \E l \in LsCalls : ls[l].op = "none"
    /\ ls' = [ls EXCEPT ![FreeLs] = StartUpdate(type, "")]
    /\ UNCHANGED <<netInfo, now, cache, call, refresh, everCached, store, svc, lastSyncJson>>
    /\ UNCHANGED syncVars

\* updateLastSync: getItem inside getCache resolves; lastSync[type] =
\* Date.now() and AsyncStorage.setItem(LAST_SYNC, JSON.stringify(lastSync))
\* is called.
updateLastSyncRead(l) ==
    /\ ls[l].pc = "lsRead" /\ ls[l].op = "update"
    /\ ls' = [ls EXCEPT ![l] =
         [@ EXCEPT !.pc = "lsWrite", !.stored = lastSyncJson,
                   !.obj = withProp(lastSyncOf(lastSyncJson), ls[l].type, now)]]
    /\ UNCHANGED <<netInfo, now, cache, call, refresh, everCached, store, svc, lastSyncJson>>
    /\ UNCHANGED syncVars

\* updateLastSync: await AsyncStorage.setItem(...) resolves.
updateLastSyncWrite(l) ==
    /\ ls[l].pc = "lsWrite"
    /\ lastSyncJson' = Json(ls[l].obj)
    /\ ls' = [ls EXCEPT ![l] = [@ EXCEPT !.pc = "done"]]
    /\ UNCHANGED <<netInfo, now, cache, call, refresh, everCached, store, svc>>
    /\ UNCHANGED syncVars

\* getLastSync(type) is called; it runs to the await of getItem inside
\* getCache.
getLastSync(type) ==
    /\ \E l \in LsCalls : ls[l].op = "none"
    /\ ls' = [ls EXCEPT ![FreeLs] =
         [IdleLs EXCEPT !.op = "get", !.type = type, !.pc = "lsRead"]]
    /\ UNCHANGED <<netInfo, now, cache, call, refresh, everCached, store, svc, lastSyncJson>>
    /\ UNCHANGED syncVars

\* getLastSync: getItem inside getCache resolves; return lastSync[type] || null.
getLastSyncRead(l) ==
    /\ ls[l].pc = "lsRead" /\ ls[l].op = "get"
    /\ ls' = [ls EXCEPT ![l] =
         [@ EXCEPT !.pc = "done", !.stored = lastSyncJson,
                   !.result = lastSyncOr(lastSyncOf(lastSyncJson), ls[l].type)]]
    /\ UNCHANGED <<netInfo, now, cache, call, refresh, everCached, store, svc, lastSyncJson>>
    /\ UNCHANGED syncVars

\* The caller takes the outcome of an updateLastSync or getLastSync.
lsReturn(l) ==
    /\ ls[l].pc = "done"
    /\ ls' = [ls EXCEPT ![l] = IdleLs]
    /\ UNCHANGED <<netInfo, now, cache, call, refresh, everCached, store, svc, lastSyncJson>>
    /\ UNCHANGED syncVars

NextBook ==
    \/ initialize
    \/ initializeFetch
    \/ \E s \in NetSeen : monitorEvent(s)
    \/ checkOnlineAlone
    \/ \E type \in LsTypes : updateLastSync(type)
    \/ \E l \in LsCalls : updateLastSyncRead(l)
    \/ \E l \in LsCalls : updateLastSyncWrite(l)
    \/ \E type \in LsTypes : getLastSync(type)
    \/ \E l \in LsCalls : getLastSyncRead(l)
    \/ \E l \in LsCalls : lsReturn(l)
    \/ Tick

SpecBook == InitCache /\ [][NextBook]_vars

----
\* Sync queue service: pure parts.

\* netInfo.isConnected && netInfo.isInternetReachable, used as a condition
\* (isInternetReachable null is falsy).
syncOnline(s) == s.isConnected /\ s.isInternetReachable = "true"

\* The offlineFarm record saveFarmOffline builds. The offline id stands for
\* the submission (farmerId, farmData, farmer) it carries.
NewFarm(id) ==
    [id |-> id, status |-> "pending", retryCount |-> 0, lastError |-> "null"]

\* updateFarmStatus: farms.map(...)
updatedFarms(fs, offlineId, status, error) ==
    [j \in 1..Len(fs) |->
        IF fs[j].id = offlineId
        THEN [fs[j] EXCEPT !.status = status, !.lastError = error,
                           !.retryCount = IF status = "failed" THEN @ + 1 ELSE @]
        ELSE fs[j]]

\* removeOfflineFarm: farms.filter(farm => farm.id !== offlineId)
withoutFarm(fs, offlineId) ==
    LET keep(f) == f.id /= offlineId IN SelectSeq(fs, keep)

\* syncAllFarms: the filter that selects the farms to replay.
isEligible(f) == f.status \in {"pending", "failed"} /\ f.retryCount < MaxRetries

\* A fault of pendingFarmsOf: the selected farms are taken newest first.
pendingFarmsOf_newestFirst(fs) ==
    LET sel == SelectSeq(fs, isEligible) IN
    [j \in 1..Len(sel) |-> sel[Len(sel) + 1 - j].id]

pendingFarmsOf(fs) ==
    LET sel == SelectSeq(fs, isEligible) IN [j \in 1..Len(sel) |-> sel[j].id]

\* A fault of isCounted: failed farms are not counted.
isCounted_pendingOnly(f) == f.status = "pending"

\* getPendingCount: farms.filter(f => pending || failed).length
isCounted(f) == f.status \in {"pending", "failed"}

getPendingCount(fs) == Len(SelectSeq(fs, isCounted))

\* f.status === 'pending', the filter of getTotalPendingCount
isPendingOnly(f) == f.status = "pending"

\* getTotalPendingCount: pendingFarms + pendingOps
getTotalPendingCount(fs, os) ==
    Len(SelectSeq(fs, isPendingOnly)) + Len(SelectSeq(os, isPendingOnly))

InQueue(fs, id) == \E j \in 1..Len(fs) : fs[j].id = id
FarmOf(fs, id) == fs[CHOOSE j \in 1..Len(fs) : fs[j].id = id]

Bump(n) == IF n < CountCap THEN n + 1 ELSE n

Sum(f) == LET S[n \in 0..MaxFarms] == IF n = 0 THEN 0 ELSE f[n] + S[n - 1] IN S[MaxFarms]

\* A fault of afterSingleFarm: a failed farm ends the loop of syncAllFarms.
afterSingleFarm_abortOnFailure(r, ok) ==
    IF r.op = "retry"
    THEN [r EXCEPT !.pc = "done", !.copy = <<>>,
                   !.result = IF ok THEN "success" ELSE "not synced"]
    ELSE LET rs == Append(r.results, [success |-> ok, farmId |-> r.farm]) IN
         IF ok /\ r.i < Len(r.pendingFarms)
         THEN [r EXCEPT !.results = rs, !.i = @ + 1, !.copy = <<>>,
                        !.farm = r.pendingFarms[r.i + 1],
                        !.pc = "updRead", !.st = "syncing"]
         ELSE [r EXCEPT !.results = rs, !.copy = <<>>, !.pc = "count"]

\* syncSingleFarm has returned {success: ok}: its caller continues.
afterSingleFarm(r, ok) ==
    IF r.op = "retry"
    THEN [r EXCEPT !.pc = "done", !.copy = <<>>,
                   !.result = IF ok THEN "success" ELSE "not synced"]
    ELSE LET rs == Append(r.results, [success |-> ok, farmId |-> r.farm]) IN
         IF r.i < Len(r.pendingFarms)
         THEN [r EXCEPT !.results = rs, !.i = @ + 1, !.copy = <<>>,
                        !.farm = r.pendingFarms[r.i + 1],
                        !.pc = "updRead", !.st = "syncing"]
         ELSE [r EXCEPT !.results = rs, !.copy = <<>>, !.pc = "count"]

----
\* Sync queue service: actions.

InitSync ==
    /\ netInfo \in NetSeen
    /\ InitSyncVars
    /\ InitCacheVars

\* syncAllFarms() is called (by the network listener or by 'Sync Now'); it
\* runs to its first await, NetInfo.fetch() inside isConnected.
syncAllFarms(t) ==
    /\ task[t].op = "none"
    /\ task' = [task EXCEPT ![t] = [IdleTask EXCEPT !.op = "sync", !.pc = "isConnected"]]
    /\ UNCHANGED <<netInfo, farms, lastSync, nextId, created, rejects, limits, listener, ops, opTask, opNextId>>
    /\ UNCHANGED cacheVars

\* A fault of isConnected: the device is taken to be online whatever NetInfo
\* reports.
isConnected_ignoreOffline(t) ==
    /\ task[t].pc = "isConnected"
    /\ task' = [task EXCEPT ![t] =
         IF @.op = "sync" THEN [@ EXCEPT !.pc = "load"]
         ELSE [@ EXCEPT !.pc = "updRead", !.st = "syncing"]]
    /\ UNCHANGED <<netInfo, farms, lastSync, nextId, created, rejects, limits, listener, ops, opTask, opNextId>>
    /\ UNCHANGED cacheVars

\* isConnected() resolves, in syncAllFarms or in retryFailedFarm.
isConnected(t) ==
    /\ task[t].pc = "isConnected"
    /\ task' = [task EXCEPT ![t] =
         IF syncOnline(netInfo)
         THEN IF @.op = "sync" THEN [@ EXCEPT !.pc = "load"]
              ELSE [@ EXCEPT !.pc = "updRead", !.st = "syncing"]
         ELSE IF @.op = "sync" THEN [@ EXCEPT !.pc = "offlineCount"]
              ELSE [@ EXCEPT !.pc = "done", !.result = "No network connection"]]
    /\ UNCHANGED <<netInfo, farms, lastSync, nextId, created, rejects, limits, listener, ops, opTask, opNextId>>
    /\ UNCHANGED cacheVars

\* syncAllFarms, offline: await this.getPendingCount() resolves; return.
syncOffline(t) ==
    /\ task[t].pc = "offlineCount"
    /\ task' = [task EXCEPT ![t] =
         [@ EXCEPT !.pc = "done", !.pending = getPendingCount(farms),
                   !.result = "No network connection"]]
    /\ UNCHANGED <<netInfo, farms, lastSync, nextId, created, rejects, limits, listener, ops, opTask, opNextId>>
    /\ UNCHANGED cacheVars

\* syncAllFarms, online: await this.getOfflineFarms() resolves; the farms to
\* replay are selected and syncSingleFarm starts on the first.
syncLoad(t) ==
    /\ task[t].pc = "load"
    /\ task' = [task EXCEPT ![t] =
         LET pf == pendingFarmsOf(farms) IN
         IF Len(pf) = 0
         THEN [@ EXCEPT !.pc = "done", !.result = "No farms to sync"]
         ELSE [@ EXCEPT !.pendingFarms = pf, !.i = 1, !.farm = pf[1],
                        !.pc = "updRead", !.st = "syncing"]]
    /\ UNCHANGED <<netInfo, farms, lastSync, nextId, created, rejects, limits, listener, ops, opTask, opNextId>>
    /\ UNCHANGED cacheVars

\* updateFarmStatus: await this.getOfflineFarms() resolves.
updateFarmStatusRead(t) ==
    /\ task[t].pc = "updRead"
    /\ task' = [task EXCEPT ![t] = [@ EXCEPT !.pc = "updWrite", !.copy = farms,
                   !.readFailed = FALSE]]
    /\ UNCHANGED <<netInfo, farms, lastSync, nextId, created, rejects, limits, listener, ops, opTask, opNextId>>
    /\ UNCHANGED cacheVars

\* updateFarmStatus: await AsyncStorage.setItem(...) resolves; syncSingleFarm
\* continues: after 'syncing' it invokes farmService.createFarm, after
\* 'synced' it goes on to removeOfflineFarm, after 'failed' it returns.
updateFarmStatusWrite(t) ==
    /\ task[t].pc = "updWrite"
    /\ LET r == task[t] IN
       /\ farms' = updatedFarms(r.copy, r.farm, r.st,
                                IF r.st = "failed" THEN "error" ELSE "null")
       /\ task' = [task EXCEPT ![t] =
            CASE r.st = "syncing" -> [r EXCEPT !.pc = "createFarm", !.copy = <<>>,
                                               !.invoked = Append(@, r.farm)]
              [] r.st = "synced" -> [r EXCEPT !.pc = "rmRead", !.copy = <<>>]
              [] r.st = "failed" -> afterSingleFarm(r, FALSE)]
    /\ UNCHANGED <<netInfo, lastSync, nextId, created, rejects, limits, listener, ops, opTask, opNextId>>
    /\ UNCHANGED cacheVars

\* syncSingleFarm: await farmService.createFarm(...) settles.
createFarmSettles(t) ==
    /\ task[t].pc = "createFarm"
    /\ \/ /\ created' = [created EXCEPT ![task[t].farm] = Bump(@)]
          /\ task' = [task EXCEPT ![t] = [@ EXCEPT !.pc = "updRead", !.st = "synced"]]
          /\ UNCHANGED rejects
       \/ /\ Sum(rejects) < limits.rejects
          /\ rejects' = [rejects EXCEPT ![task[t].farm] = @ + 1]
          /\ task' = [task EXCEPT ![t] = [@ EXCEPT !.pc = "updRead", !.st = "failed"]]
          /\ UNCHANGED created
    /\ UNCHANGED <<netInfo, farms, lastSync, nextId, limits, listener, ops, opTask, opNextId>>
    /\ UNCHANGED cacheVars

\* removeOfflineFarm: await this.getOfflineFarms() resolves.
removeOfflineFarmRead(t) ==
    /\ task[t].pc = "rmRead"
    /\ task' = [task EXCEPT ![t] = [@ EXCEPT !.pc = "rmWrite", !.copy = farms,
                   !.readFailed = FALSE]]
    /\ UNCHANGED <<netInfo, farms, lastSync, nextId, created, rejects, limits, listener, ops, opTask, opNextId>>
    /\ UNCHANGED cacheVars

\* removeOfflineFarm: await AsyncStorage.setItem(...) resolves; syncSingleFarm
\* returns {success: true}.
removeOfflineFarmWrite(t) ==
    /\ task[t].pc = "rmWrite"
    /\ farms' = withoutFarm(task[t].copy, task[t].farm)
    /\ task' = [task EXCEPT ![t] = afterSingleFarm(@, TRUE)]
    /\ UNCHANGED <<netInfo, lastSync, nextId, created, rejects, limits, listener, ops, opTask, opNextId>>
    /\ UNCHANGED cacheVars

\* syncAllFarms, after the loop: await this.getPendingCount() resolves.
syncCount(t) ==
    /\ task[t].pc = "count"
    /\ task' = [task EXCEPT ![t] =
         [@ EXCEPT !.pc = "stamp", !.pending = getPendingCount(farms)]]
    /\ UNCHANGED <<netInfo, farms, lastSync, nextId, created, rejects, limits, listener, ops, opTask, opNextId>>
    /\ UNCHANGED cacheVars

\* syncAllFarms: await AsyncStorage.setItem(LAST_SYNC_KEY, ...) resolves;
\* the summary is returned.
syncStamp(t) ==
    /\ task[t].pc = "stamp"
    /\ lastSync' = "set"
    /\ task' = [task EXCEPT ![t] = [@ EXCEPT !.pc = "done", !.result = "complete"]]
    /\ UNCHANGED <<netInfo, farms, nextId, created, rejects, limits, listener, ops, opTask, opNextId>>
    /\ UNCHANGED cacheVars

\* retryFailedFarm(offlineId) is called; it runs to await getOfflineFarms().
retryFailedFarm(t, id) ==
    /\ t \in UiTasks
    /\ task[t].op = "none"
    /\ task' = [task EXCEPT ![t] =
         [IdleTask EXCEPT !.op = "retry", !.pc = "retryLoad", !.farm = id]]
    /\ UNCHANGED <<netInfo, farms, lastSync, nextId, created, rejects, limits, listener, ops, opTask, opNextId>>
    /\ UNCHANGED cacheVars

\* A fault of retryLoad: the status of the farm is not checked.
retryLoad_anyStatus(t) ==
    /\ task[t].pc = "retryLoad"
    /\ task' = [task EXCEPT ![t] =
         IF ~InQueue(farms, @.farm)
         THEN [@ EXCEPT !.pc = "done", !.result = "Farm not found"]
         ELSE [@ EXCEPT !.pc = "isConnected"]]
    /\ UNCHANGED <<netInfo, farms, lastSync, nextId, created, rejects, limits, listener, ops, opTask, opNextId>>
    /\ UNCHANGED cacheVars

\* retryFailedFarm: await this.getOfflineFarms() resolves; the farm is looked
\* up and its status checked.
retryLoad(t) ==
    /\ task[t].pc = "retryLoad"
    /\ task' = [task EXCEPT ![t] =
         IF ~InQueue(farms, @.farm)
         THEN [@ EXCEPT !.pc = "done", !.result = "Farm not found"]
         ELSE IF FarmOf(farms, @.farm).status /= "failed"
         THEN [@ EXCEPT !.pc = "done", !.result = "Farm is not in failed state"]
         ELSE [@ EXCEPT !.pc = "isConnected"]]
    /\ UNCHANGED <<netInfo, farms, lastSync, nextId, created, rejects, limits, listener, ops, opTask, opNextId>>
    /\ UNCHANGED cacheVars

\* AddFarmScreen.onSubmit is called with a new farm; it runs to
\* await NetInfo.fetch().
onSubmit(t) ==
    /\ t \in UiTasks
    /\ task[t].op = "none"
    /\ nextId <= limits.farms
    /\ nextId' = nextId + 1
    /\ task' = [task EXCEPT ![t] =
         [IdleTask EXCEPT !.op = "submit", !.pc = "netFetch", !.farm = nextId]]
    /\ UNCHANGED <<netInfo, farms, lastSync, created, rejects, limits, listener, ops, opTask, opNextId>>
    /\ UNCHANGED cacheVars

\* onSubmit: NetInfo.fetch() resolves. Offline: saveFarmOffline is called and
\* runs to await getOfflineFarms(). Online: farmService.createFarm is invoked.
submitNetFetch(t) ==
    /\ task[t].pc = "netFetch"
    /\ task' = [task EXCEPT ![t] =
         IF syncOnline(netInfo) THEN [@ EXCEPT !.pc = "submitCreate"]
         ELSE [@ EXCEPT !.pc = "saveRead"]]
    /\ UNCHANGED <<netInfo, farms, lastSync, nextId, created, rejects, limits, listener, ops, opTask, opNextId>>
    /\ UNCHANGED cacheVars

\* onSubmit, online: await farmService.createFarm(...) settles. On a
\* rejection saveFarmOffline is called as the fallback.
submitCreateSettles(t) ==
    /\ task[t].pc = "submitCreate"
    /\ \/ /\ created' = [created EXCEPT ![task[t].farm] = Bump(@)]
          /\ task' = [task EXCEPT ![t] = [@ EXCEPT !.pc = "done", !.result = "Success"]]
       \/ /\ task' = [task EXCEPT ![t] = [@ EXCEPT !.pc = "saveRead"]]
          /\ UNCHANGED created
    /\ UNCHANGED <<netInfo, farms, lastSync, nextId, rejects, limits, listener, ops, opTask, opNextId>>
    /\ UNCHANGED cacheVars

\* saveFarmOffline: await this.getOfflineFarms() resolves.
saveFarmOfflineRead(t) ==
    /\ task[t].pc = "saveRead"
    /\ task' = [task EXCEPT ![t] = [@ EXCEPT !.pc = "saveWrite", !.copy = farms,
                   !.readFailed = FALSE]]
    /\ UNCHANGED <<netInfo, farms, lastSync, nextId, created, rejects, limits, listener, ops, opTask, opNextId>>
    /\ UNCHANGED cacheVars

\* A fault of saveFarmOfflineWrite: saveFarmOffline returns without having
\* written the queue.
saveFarmOfflineWrite_noPersist(t) ==
    /\ task[t].pc = "saveWrite"
    /\ task' = [task EXCEPT ![t] = [@ EXCEPT !.pc = "loadCount", !.copy = <<>>]]
    /\ UNCHANGED <<netInfo, farms, lastSync, nextId, created, rejects, limits, listener, ops, opTask, opNextId>>
    /\ UNCHANGED cacheVars

\* saveFarmOffline: await AsyncStorage.setItem(...) resolves; it returns the
\* offlineFarm and onSubmit goes on to await loadPendingSyncCount().
saveFarmOfflineWrite(t) ==
    /\ task[t].pc = "saveWrite"
    /\ farms' = Append(task[t].copy, NewFarm(task[t].farm))
    /\ task' = [task EXCEPT ![t] = [@ EXCEPT !.pc = "loadCount", !.copy = <<>>]]
    /\ UNCHANGED <<netInfo, lastSync, nextId, created, rejects, limits, listener, ops, opTask, opNextId>>
    /\ UNCHANGED cacheVars

\* saveFarmOffline: await AsyncStorage.setItem(...) rejects; the catch logs
\* and throws 'Failed to save farm offline', so the await in onSubmit (in the
\* offline branch or in the fallback) rejects.
saveFarmOfflineThrows(t) ==
    /\ task[t].pc = "saveWrite"
    /\ task' = [task EXCEPT ![t] = [@ EXCEPT !.pc = "saveThrown", !.copy = <<>>]]
    /\ UNCHANGED <<netInfo, farms, lastSync, nextId, created, rejects, limits, listener, ops, opTask, opNextId>>
    /\ UNCHANGED cacheVars

\* A fault of onSubmitCatch: the rejection is swallowed and onSubmit goes on
\* as after a successful save.
onSubmitCatch_swallowed(t) ==
    /\ task[t].pc = "saveThrown"
    /\ task' = [task EXCEPT ![t] = [@ EXCEPT !.pc = "loadCount"]]
    /\ UNCHANGED <<netInfo, farms, lastSync, nextId, created, rejects, limits, listener, ops, opTask, opNextId>>
    /\ UNCHANGED cacheVars

\* onSubmit: the outer catch takes the rejection, Alert.alert('Error',
\* error.message) is shown and onSubmit completes (finally: setLoading(false)).
onSubmitCatch(t) ==
    /\ task[t].pc = "saveThrown"
    /\ task' = [task EXCEPT ![t] = [@ EXCEPT !.pc = "done", !.result = "Error"]]
    /\ UNCHANGED <<netInfo, farms, lastSync, nextId, created, rejects, limits, listener, ops, opTask, opNextId>>
    /\ UNCHANGED cacheVars

\* onSubmit: loadPendingSyncCount() resolves; the 'Saved Offline' alert is
\* shown and onSubmit completes.
loadPendingSyncCount(t) ==
    /\ task[t].pc = "loadCount"
    /\ task' = [task EXCEPT ![t] =
         [@ EXCEPT !.pc = "done", !.pending = getPendingCount(farms),
                   !.result = "Saved Offline"]]
    /\ UNCHANGED <<netInfo, farms, lastSync, nextId, created, rejects, limits, listener, ops, opTask, opNextId>>
    /\ UNCHANGED cacheVars

\* The caller takes the result of a finished call.
taskReturn(t) ==
    /\ task[t].pc = "done"
    /\ \A o \in OpTasks : ~(opTask[o].pc = "syncAllFarms" /\ opTask[o].farmsTask = t)
    /\ task' = [task EXCEPT ![t] = IdleTask]
    /\ UNCHANGED <<netInfo, farms, lastSync, nextId, created, rejects, limits, listener, ops, opTask, opNextId>>
    /\ UNCHANGED cacheVars

\* The process stops (at any suspension point) and is started again over the
\* same persistence: every call in progress is gone, AsyncStorage is kept.
Restart ==
    /\ task' = [t \in Tasks |-> IdleTask]
    /\ listener' = NewListener
    /\ opTask' = [o \in OpTasks |-> IdleOpTask]
    /\ UNCHANGED <<netInfo, farms, lastSync, nextId, created, rejects, limits,
                   ops, opNextId>>
    /\ UNCHANGED cacheVars

\* getOfflineFarms inside updateFarmStatus: AsyncStorage.getItem rejects; the
\* catch logs and returns [].
updateFarmStatusReadFails(t) ==
    /\ task[t].pc = "updRead"
    /\ task' = [task EXCEPT ![t] =
         [@ EXCEPT !.pc = "updWrite", !.copy = <<>>, !.readFailed = TRUE]]
    /\ UNCHANGED <<netInfo, farms, lastSync, nextId, created, rejects, limits, listener, ops, opTask, opNextId>>
    /\ UNCHANGED cacheVars

\* getOfflineFarms inside removeOfflineFarm: AsyncStorage.getItem rejects.
removeOfflineFarmReadFails(t) ==
    /\ task[t].pc = "rmRead"
    /\ task' = [task EXCEPT ![t] =
         [@ EXCEPT !.pc = "rmWrite", !.copy = <<>>, !.readFailed = TRUE]]
    /\ UNCHANGED <<netInfo, farms, lastSync, nextId, created, rejects, limits, listener, ops, opTask, opNextId>>
    /\ UNCHANGED cacheVars

\* getOfflineFarms inside saveFarmOffline: AsyncStorage.getItem rejects.
saveFarmOfflineReadFails(t) ==
    /\ task[t].pc = "saveRead"
    /\ task' = [task EXCEPT ![t] =
         [@ EXCEPT !.pc = "saveWrite", !.copy = <<>>, !.readFailed = TRUE]]
    /\ UNCHANGED <<netInfo, farms, lastSync, nextId, created, rejects, limits, listener, ops, opTask, opNextId>>
    /\ UNCHANGED cacheVars

\* clearSyncedFarms: farms.filter(f => f.status !== 'synced')
notSynced(fs) == LET keep(f) == f.status /= "synced" IN SelectSeq(fs, keep)

\* clearSyncedFarms() is called ('Clear Synced' in the sync status modal); it
\* runs to await this.getOfflineFarms().
clearSyncedFarms(t) ==
    /\ t \in UiTasks
    /\ task[t].op = "none"
    /\ task' = [task EXCEPT ![t] = [IdleTask EXCEPT !.op = "clear", !.pc = "clearRead"]]
    /\ UNCHANGED <<netInfo, farms, lastSync, nextId, created, rejects, limits, listener, ops, opTask, opNextId>>
    /\ UNCHANGED cacheVars

\* clearSyncedFarms: await this.getOfflineFarms() resolves.
clearSyncedFarmsRead(t) ==
    /\ task[t].pc = "clearRead"
    /\ task' = [task EXCEPT ![t] =
         [@ EXCEPT !.pc = "clearWrite", !.copy = farms, !.readFailed = FALSE]]
    /\ UNCHANGED <<netInfo, farms, lastSync, nextId, created, rejects, limits, listener, ops, opTask, opNextId>>
    /\ UNCHANGED cacheVars

\* getOfflineFarms inside clearSyncedFarms: AsyncStorage.getItem rejects.
clearSyncedFarmsReadFails(t) ==
    /\ task[t].pc = "clearRead"
    /\ task' = [task EXCEPT ![t] =
         [@ EXCEPT !.pc = "clearWrite", !.copy = <<>>, !.readFailed = TRUE]]
    /\ UNCHANGED <<netInfo, farms, lastSync, nextId, created, rejects, limits, listener, ops, opTask, opNextId>>
    /\ UNCHANGED cacheVars

\* clearSyncedFarms: await AsyncStorage.setItem(...) resolves.
clearSyncedFarmsWrite(t) ==
    /\ task[t].pc = "clearWrite"
    /\ farms' = notSynced(task[t].copy)
    /\ task' = [task EXCEPT ![t] = [@ EXCEPT !.pc = "done", !.copy = <<>>]]
    /\ UNCHANGED <<netInfo, lastSync, nextId, created, rejects, limits, listener, ops, opTask, opNextId>>
    /\ UNCHANGED cacheVars

\* The steps of the calls, without a stop of the process.
NextCalls ==
    \/ \E t \in Tasks : syncAllFarms(t)
    \/ \E t \in Tasks : isConnected(t)
    \/ \E t \in Tasks : syncOffline(t)
    \/ \E t \in Tasks : syncLoad(t)
    \/ \E t \in Tasks : updateFarmStatusRead(t)
    \/ \E t \in Tasks : updateFarmStatusWrite(t)
    \/ \E t \in Tasks : createFarmSettles(t)
    \/ \E t \in Tasks : removeOfflineFarmRead(t)
    \/ \E t \in Tasks : removeOfflineFarmWrite(t)
    \/ \E t \in Tasks : syncCount(t)
    \/ \E t \in Tasks : syncStamp(t)
    \/ \E t \in Tasks, id \in Ids : retryFailedFarm(t, id)
    \/ \E t \in Tasks : retryLoad(t)
    \/ \E t \in Tasks : onSubmit(t)
    \/ \E t \in Tasks : submitNetFetch(t)
    \/ \E t \in Tasks : submitCreateSettles(t)
    \/ \E t \in Tasks : saveFarmOfflineRead(t)
    \/ \E t \in Tasks : saveFarmOfflineWrite(t)
    \/ \E t \in Tasks : loadPendingSyncCount(t)
    \/ \E t \in Tasks : taskReturn(t)
    \/ NetChange

NextSync ==
    \/ NextCalls
    \/ Restart

SpecSync == InitSync /\ [][NextSync]_vars

\* The same calls with one farm, a remote API that may reject every replay
\* up to the retry ceiling and beyond, and a process that keeps running.
InitRetry ==
    /\ netInfo \in NetSeen
    /\ limits = [farms |-> RetryFarms, rejects |-> MaxRejects]
    /\ listener = NewListener
    /\ InitOpsVars
    /\ farms = <<>>
    /\ lastSync = "null"
    /\ task = [t \in Tasks |-> IdleTask]
    /\ nextId = 1
    /\ created = [i \in Ids |-> 0]
    /\ rejects = [i \in Ids |-> 0]
    /\ InitCacheVars

SpecRetry == InitRetry /\ [][NextCalls]_vars

\* The calls over a persistence whose write in saveFarmOffline may fail.
NextPersist ==
    \/ NextCalls
    \/ \E t \in Tasks : saveFarmOfflineThrows(t)
    \/ \E t \in Tasks : onSubmitCatch(t)

SpecPersist == InitSync /\ [][NextPersist]_vars

\* The sync passes, the submits and 'Clear Synced' over a persistence whose
\* reads in getOfflineFarms may fail, while the connectivity stays as it is.
NextReadFail ==
    \/ \E t \in Tasks : syncAllFarms(t)
    \/ \E t \in Tasks : isConnected(t)
    \/ \E t \in Tasks : syncOffline(t)
    \/ \E t \in Tasks : syncLoad(t)
    \/ \E t \in Tasks : updateFarmStatusRead(t)
    \/ \E t \in Tasks : updateFarmStatusReadFails(t)
    \/ \E t \in Tasks : updateFarmStatusWrite(t)
    \/ \E t \in Tasks : createFarmSettles(t)
    \/ \E t \in Tasks : removeOfflineFarmRead(t)
    \/ \E t \in Tasks : removeOfflineFarmReadFails(t)
    \/ \E t \in Tasks : removeOfflineFarmWrite(t)
    \/ \E t \in Tasks : syncCount(t)
    \/ \E t \in Tasks : syncStamp(t)
    \/ \E t \in Tasks : onSubmit(t)
    \/ \E t \in Tasks : submitNetFetch(t)
    \/ \E t \in Tasks : submitCreateSettles(t)
    \/ \E t \in Tasks : saveFarmOfflineRead(t)
    \/ \E t \in Tasks : saveFarmOfflineReadFails(t)
    \/ \E t \in Tasks : saveFarmOfflineWrite(t)
    \/ \E t \in Tasks : loadPendingSyncCount(t)
    \/ \E t \in Tasks : clearSyncedFarms(t)
    \/ \E t \in Tasks : clearSyncedFarmsRead(t)
    \/ \E t \in Tasks : clearSyncedFarmsReadFails(t)
    \/ \E t \in Tasks : clearSyncedFarmsWrite(t)
    \/ \E t \in Tasks : taskReturn(t)

SpecReadFail == InitSync /\ [][NextReadFail]_vars

\* The automatic sync: the listener of setupNetworkListener, installed by
\* AddFarmScreen's effect, receives every connectivity event of NetInfo.

\* What the listener had observed before an event that makes it sync.
triggerOf(prev) ==
    IF prev = "offline" THEN "up" ELSE IF prev = "online" THEN "same" ELSE "first"

\* The call slot an invocation of the listener's handler runs in.
FreeTask == CHOOSE t \in Tasks : task[t].op = "none" /\ \A u \in 1..(t - 1) : task[u].op /= "none"

\* NetInfo delivers a connectivity event with state s to the listener (the
\* first one on subscription; later ones when the connection, its type or
\* its details change). The first event is skipped; an event that reports
\* the device connected and reachable runs the handler to
\* await this.getPendingCount().
netEvent(s) ==
    /\ netInfo' = s
    /\ listener' = [isFirstConnection |-> FALSE,
                    prev |-> IF syncOnline(s) THEN "online" ELSE "offline"]
    /\ IF listener.isFirstConnection \/ ~syncOnline(s)
       THEN UNCHANGED task
       ELSE /\ \E t \in Tasks : task[t].op = "none"
            /\ task' = [task EXCEPT ![FreeTask] =
                 [IdleTask EXCEPT !.op = "listen", !.pc = "listenCount",
                                  !.trigger = triggerOf(listener.prev)]]
    /\ UNCHANGED <<farms, lastSync, nextId, created, rejects, limits>>
    /\ UNCHANGED opsVars
    /\ UNCHANGED cacheVars

\* The listener's handler: getPendingCount() resolves; with pending farms
\* syncAllFarms() is called and runs to its first await, otherwise the
\* handler returns.
listenCount(t) ==
    /\ task[t].pc = "listenCount"
    /\ task' = [task EXCEPT ![t] =
         IF getPendingCount(farms) > 0
         THEN [@ EXCEPT !.op = "sync", !.pc = "isConnected"]
         ELSE IdleTask]
    /\ UNCHANGED <<netInfo, farms, lastSync, nextId, created, rejects, limits, listener, ops, opTask, opNextId>>
    /\ UNCHANGED cacheVars

\* The steps of a running process in which the user submits farms and the
\* passes are started by the listener alone.
NextListen ==
    \/ \E s \in NetSeen : netEvent(s)
    \/ \E t \in Tasks : listenCount(t)
    \/ \E t \in Tasks : isConnected(t)
    \/ \E t \in Tasks : syncOffline(t)
    \/ \E t \in Tasks : syncLoad(t)
    \/ \E t \in Tasks : updateFarmStatusRead(t)
    \/ \E t \in Tasks : updateFarmStatusWrite(t)
    \/ \E t \in Tasks : createFarmSettles(t)
    \/ \E t \in Tasks : removeOfflineFarmRead(t)
    \/ \E t \in Tasks : removeOfflineFarmWrite(t)
    \/ \E t \in Tasks : syncCount(t)
    \/ \E t \in Tasks : syncStamp(t)
    \/ \E t \in Tasks : onSubmit(t)
    \/ \E t \in Tasks : submitNetFetch(t)
    \/ \E t \in Tasks : submitCreateSettles(t)
    \/ \E t \in Tasks : saveFarmOfflineRead(t)
    \/ \E t \in Tasks : saveFarmOfflineWrite(t)
    \/ \E t \in Tasks : loadPendingSyncCount(t)
    \/ \E t \in Tasks : taskReturn(t)

SpecListen == InitSync /\ [][NextListen]_vars

----
\* Sync queue service: the generic operations (updates, deletes, ...).

\* syncSingleOperation: operations.map(op => op.id === operation.id
\*   ? {...op, status: 'synced', syncedAt: new Date()} : op)
markedSynced(os, id, t) ==
    [j \in 1..Len(os) |->
        IF os[j].id = id
        THEN [os[j] EXCEPT !.status = "synced", !.syncedAt = t]
        ELSE os[j]]

\* syncSingleOperation: updated.filter(op => op.status !== 'synced' ||
\*   Date.now() - syncedAt < 24h)
isKept(o, t) == o.status /= "synced" \/ t - o.syncedAt < Retention

cleanedOps(os, t) == LET keep(o) == isKept(o, t) IN SelectSeq(os, keep)

\* syncAllOperations: operations.filter(op => op.status === 'pending')
pendingOpsOf(os) ==
    LET isPending(o) == o.status = "pending"
        sel == SelectSeq(os, isPending)
    IN  [j \in 1..Len(sel) |-> sel[j].id]

\* The remote calls syncSingleOperation makes for an operation: none; where
\* the call of the service for entityType and type would be, it only logs.
writerCallsOf(id) == <<>>

\* syncSingleOperation has returned true: synced++ and the loop of
\* syncAllOperations goes on, or returns {synced, failed}.
afterSingleOperation(r) ==
    IF r.i < Len(r.pending)
    THEN [r EXCEPT !.synced = @ + 1, !.i = @ + 1, !.id = r.pending[r.i + 1],
                   !.copy = <<>>, !.pc = "opRead"]
    ELSE [r EXCEPT !.synced = @ + 1, !.copy = <<>>, !.pc = "done"]

\* saveOfflineOperation(type, entityType, data) is called; it runs to
\* await this.getOfflineOperations().
saveOfflineOperation(o) ==
    /\ opTask[o].op = "none"
    /\ opNextId <= MaxOps
    /\ opNextId' = opNextId + 1
    /\ opTask' = [opTask EXCEPT ![o] =
         [IdleOpTask EXCEPT !.op = "save", !.pc = "opSaveRead", !.id = opNextId]]
    /\ UNCHANGED <<netInfo, farms, lastSync, task, nextId, created, rejects,
                   limits, listener, ops>>
    /\ UNCHANGED cacheVars

\* saveOfflineOperation: getOfflineOperations() resolves; the operation is
\* pushed and AsyncStorage.setItem is called.
saveOfflineOperationRead(o) ==
    /\ opTask[o].pc = "opSaveRead"
    /\ opTask' = [opTask EXCEPT ![o] =
         [@ EXCEPT !.pc = "opSaveWrite", !.copy = Append(ops, NewOp(opTask[o].id))]]
    /\ UNCHANGED <<netInfo, farms, lastSync, task, nextId, created, rejects,
                   limits, listener, ops, opNextId>>
    /\ UNCHANGED cacheVars

\* saveOfflineOperation: AsyncStorage.setItem resolves; the operation is
\* returned.
saveOfflineOperationWrite(o) ==
    /\ opTask[o].pc = "opSaveWrite"
    /\ ops' = opTask[o].copy
    /\ opTask' = [opTask EXCEPT ![o] = [@ EXCEPT !.pc = "done", !.copy = <<>>]]
    /\ UNCHANGED <<netInfo, farms, lastSync, task, nextId, created, rejects,
                   limits, listener, opNextId>>
    /\ UNCHANGED cacheVars

\* syncAllOperations() is called; it runs to await getOfflineOperations().
syncAllOperations(o) ==
    /\ opTask[o].op = "none"
    /\ opTask' = [opTask EXCEPT ![o] =
         [IdleOpTask EXCEPT !.op = "syncOps", !.pc = "opsLoad"]]
    /\ UNCHANGED <<netInfo, farms, lastSync, task, nextId, created, rejects,
                   limits, listener, ops, opNextId>>
    /\ UNCHANGED cacheVars

\* syncAllOperations: getOfflineOperations() resolves; the pending
\* operations are selected and syncSingleOperation starts on the first.
syncAllOperationsLoad(o) ==
    /\ opTask[o].pc = "opsLoad"
    /\ opTask' = [opTask EXCEPT ![o] =
         LET sel == pendingOpsOf(ops) IN
         IF Len(sel) = 0 THEN [@ EXCEPT !.pc = "done"]
         ELSE [@ EXCEPT !.pending = sel, !.i = 1, !.id = sel[1], !.pc = "opRead"]]
    /\ UNCHANGED <<netInfo, farms, lastSync, task, nextId, created, rejects,
                   limits, listener, ops, opNextId>>
    /\ UNCHANGED cacheVars

\* syncSingleOperation: getOfflineOperations() resolves; the operation is
\* marked synced in the array read and AsyncStorage.setItem is called.
syncSingleOperationRead(o) ==
    /\ opTask[o].pc = "opRead"
    /\ opTask' = [opTask EXCEPT ![o] =
         [@ EXCEPT !.pc = "opMark", !.copy = markedSynced(ops, opTask[o].id, now)]]
    /\ UNCHANGED <<netInfo, farms, lastSync, task, nextId, created, rejects,
                   limits, listener, ops, opNextId>>
    /\ UNCHANGED cacheVars

\* syncSingleOperation: AsyncStorage.setItem(updated) resolves; the synced
\* operations older than the retention are filtered out and, if there are
\* any, AsyncStorage.setItem(cleaned) is called; else it returns true.
syncSingleOperationMark(o) ==
    /\ opTask[o].pc = "opMark"
    /\ ops' = opTask[o].copy
    /\ opTask' = [opTask EXCEPT ![o] =
         LET cleaned == cleanedOps(@.copy, now) IN
         IF Len(cleaned) /= Len(@.copy)
         THEN [@ EXCEPT !.pc = "opClean", !.copy = cleaned]
         ELSE afterSingleOperation(@)]
    /\ UNCHANGED <<netInfo, farms, lastSync, task, nextId, created, rejects,
                   limits, listener, opNextId>>
    /\ UNCHANGED cacheVars

\* syncSingleOperation: AsyncStorage.setItem(cleaned) resolves; it returns
\* true.
syncSingleOperationClean(o) ==
    /\ opTask[o].pc = "opClean"
    /\ ops' = opTask[o].copy
    /\ opTask' = [opTask EXCEPT ![o] = afterSingleOperation(@)]
    /\ UNCHANGED <<netInfo, farms, lastSync, task, nextId, created, rejects,
                   limits, listener, opNextId>>
    /\ UNCHANGED cacheVars

\* The caller takes the result of a finished generic-operation call.
opTaskReturn(o) ==
    /\ opTask[o].pc = "done"
    /\ opTask' = [opTask EXCEPT ![o] = IdleOpTask]
    /\ UNCHANGED <<netInfo, farms, lastSync, task, nextId, created, rejects,
                   limits, listener, ops, opNextId>>
    /\ UNCHANGED cacheVars

\* syncAll() is called: it calls syncAllFarms(), which runs to its first
\* await, NetInfo.fetch() inside isConnected, and awaits it.
syncAll(o, t) ==
    /\ opTask[o].op = "none"
    /\ task[t].op = "none"
    /\ opTask' = [opTask EXCEPT ![o] =
         [IdleOpTask EXCEPT !.op = "syncAll", !.pc = "syncAllFarms", !.farmsTask = t]]
    /\ task' = [task EXCEPT ![t] = [IdleTask EXCEPT !.op = "sync", !.pc = "isConnected"]]
    /\ UNCHANGED <<netInfo, farms, lastSync, nextId, created, rejects, limits,
                   listener, ops, opNextId>>
    /\ UNCHANGED cacheVars

\* syncAll: await this.syncAllFarms() resolves; syncAllOperations() is
\* called and runs to await this.getOfflineOperations().
syncAllFarmsReturns(o) ==
    /\ opTask[o].pc = "syncAllFarms"
    /\ task[opTask[o].farmsTask].pc = "done"
    /\ task' = [task EXCEPT ![opTask[o].farmsTask] = IdleTask]
    /\ opTask' = [opTask EXCEPT ![o] = [@ EXCEPT !.pc = "opsLoad"]]
    /\ UNCHANGED <<netInfo, farms, lastSync, nextId, created, rejects, limits,
                   listener, ops, opNextId>>
    /\ UNCHANGED cacheVars

NextOps ==
    \/ \E o \in OpTasks : saveOfflineOperation(o)
    \/ \E o \in OpTasks : saveOfflineOperationRead(o)
    \/ \E o \in OpTasks : saveOfflineOperationWrite(o)
    \/ \E o \in OpTasks : syncAllOperations(o)
    \/ \E o \in OpTasks : syncAllOperationsLoad(o)
    \/ \E o \in OpTasks : syncSingleOperationRead(o)
    \/ \E o \in OpTasks : syncSingleOperationMark(o)
    \/ \E o \in OpTasks : syncSingleOperationClean(o)
    \/ \E o \in OpTasks : opTaskReturn(o)
    \/ Tick

SpecOps == InitSync /\ [][NextOps]_vars

\* The comprehensive sync: farms are submitted and operations saved, and
\* syncAll replays both, while the connectivity stays as it is; one farm is
\* submitted.
InitAll ==
    /\ netInfo \in NetSeen
    /\ limits = [farms |-> RetryFarms, rejects |-> FewRejects]
    /\ listener = NewListener
    /\ InitOpsVars
    /\ farms = <<>>
    /\ lastSync = "null"
    /\ task = [t \in Tasks |-> IdleTask]
    /\ nextId = 1
    /\ created = [i \in Ids |-> 0]
    /\ rejects = [i \in Ids |-> 0]
    /\ InitCacheVars

NextAll ==
    \/ \E o \in OpTasks, t \in Tasks : syncAll(o, t)
    \/ \E o \in OpTasks : syncAllFarmsReturns(o)
    \/ \E t \in Tasks : isConnected(t)
    \/ \E t \in Tasks : syncOffline(t)
    \/ \E t \in Tasks : syncLoad(t)
    \/ \E t \in Tasks : updateFarmStatusRead(t)
    \/ \E t \in Tasks : updateFarmStatusWrite(t)
    \/ \E t \in Tasks : createFarmSettles(t)
    \/ \E t \in Tasks : removeOfflineFarmRead(t)
    \/ \E t \in Tasks : removeOfflineFarmWrite(t)
    \/ \E t \in Tasks : syncCount(t)
    \/ \E t \in Tasks : syncStamp(t)
    \/ \E t \in Tasks : onSubmit(t)
    \/ \E t \in Tasks : submitNetFetch(t)
    \/ \E t \in Tasks : submitCreateSettles(t)
    \/ \E t \in Tasks : saveFarmOfflineRead(t)
    \/ \E t \in Tasks : saveFarmOfflineWrite(t)
    \/ \E t \in Tasks : loadPendingSyncCount(t)
    \/ \E t \in Tasks : taskReturn(t)
    \/ \E o \in OpTasks : saveOfflineOperation(o)
    \/ \E o \in OpTasks : saveOfflineOperationRead(o)
    \/ \E o \in OpTasks : saveOfflineOperationWrite(o)
    \/ \E o \in OpTasks : syncAllOperationsLoad(o)
    \/ \E o \in OpTasks : syncSingleOperationRead(o)
    \/ \E o \in OpTasks : syncSingleOperationMark(o)
    \/ \E o \in OpTasks : opTaskReturn(o)

SpecAll == InitAll /\ [][NextAll]_vars

----
\* Claims about the sync queue service.

\* No call is inside syncSingleFarm for the farm.
NotBeingSynced(id) ==
    \A t \in Tasks :
        ~(task[t].farm = id /\ task[t].op \in {"sync", "retry"}
          /\ task[t].pc \in {"updRead", "updWrite", "createFarm", "rmRead", "rmWrite"})

\* C3: a queued farm whose remote write has failed on 5 replay attempts
\* ends with status = failed and retryCount = 5 (and is then left alone by
\* automatic passes).
C3_FiveFailuresReachCeiling ==
    \A j \in 1..Len(farms) :
        (/\ rejects[farms[j].id] = MaxRetries
         /\ created[farms[j].id] = 0
         /\ NotBeingSynced(farms[j].id))
            => farms[j].status = "failed" /\ farms[j].retryCount = MaxRetries

\* C4: in every reachable state every queued farm has retryCount <= 5,
\* manual retries included.
C4_RetryCountAtMostFive ==
    \A j \in 1..Len(farms) : farms[j].retryCount <= MaxRetries

\* C5: when the process has stopped inside a sync and has been started again
\* (no call is in progress), every queued farm that was not delivered is
\* selected by the next pass or can be retried manually.
C5_RestartResumes ==
    (\A t \in Tasks : task[t] = IdleTask)
        => \A j \in 1..Len(farms) :
              created[farms[j].id] = 0
                  => isEligible(farms[j]) \/ farms[j].status = "failed"

\* C6: one syncAllFarms call passes each farm it selected to
\* farmService.createFarm exactly once, one after the other: an invocation
\* starts only when the outcome of every earlier one is recorded, and a
\* completed pass has invoked the writer for all of them.
C6_SequentialOncePerFarm ==
    \A t \in Tasks :
        task[t].op = "sync" =>
            LET r == task[t] IN
            /\ Len(r.invoked) <= Len(r.pendingFarms)
            /\ r.invoked = SubSeq(r.pendingFarms, 1, Len(r.invoked))
            /\ Len(r.invoked) - Len(r.results) \in {0, 1}
            /\ (r.pc = "done" /\ r.result = "complete")
                   => /\ r.invoked = r.pendingFarms
                      /\ Len(r.results) = Len(r.pendingFarms)

C6_Witness ==
    \E t \in Tasks :
        /\ task[t].op = "sync" /\ task[t].pc = "done" /\ task[t].result = "complete"
        /\ Len(task[t].pendingFarms) = 2
        /\ task[t].invoked = task[t].pendingFarms

\* C7: when onSubmit completes after the offline branch or the fallback of a
\* rejected createFarm, the farm is in the durable queue (or, at least, has
\* been created remotely by a sync that already replayed it): it is never
\* neither created nor queued.
C7_SubmitNeverLosesFarm ==
    \A t \in Tasks :
        (task[t].op = "submit" /\ task[t].pc = "done")
            => InQueue(farms, task[t].farm) \/ created[task[t].farm] > 0

Delivered(id) ==
    \E t \in Tasks :
        \/ /\ task[t].op = "sync"
           /\ \E k \in 1..Len(task[t].results) :
                 task[t].results[k] = [success |-> TRUE, farmId |-> id]
        \/ /\ task[t].op = "retry" /\ task[t].pc = "done"
           /\ task[t].result = "success" /\ task[t].farm = id

\* C9: once syncSingleFarm has completed with a successful remote write for
\* a farm, the farm is no longer in the durable queue (so that no later pass
\* can send it again).
C9_DeliveredFarmLeavesQueue ==
    \A id \in Ids : Delivered(id) => ~InQueue(farms, id)

----
\* Claims about the cache service (checked under SpecCache).

\* A finished fetchWithCache call that took the offline branch.
OfflineDone(c) == call[c].pc = "done" /\ ~call[c].online

\* C1: a fetchWithCache call made while checkOnline reports offline, for a
\* key under which a (truthy) value v is stored, fresh or expired, returns v
\* and never invokes the remote fetch.
C1_OfflineReturnsCached ==
    \A c \in Calls :
        (OfflineDone(c) /\ call[c].cached.present /\ TruthyData(call[c].cached.data))
            => /\ call[c].result = Value(call[c].cached.data)
               /\ call[c].fetches = 0

\* C2: when the remote fetch of an online fetchWithCache call rejects and a
\* (truthy) value is stored under the key at that time, even an expired
\* one, the call returns that value instead of the rejection.
C2_FetchFailureFallsBack ==
    \A c \in Calls :
        (/\ call[c].pc = "done" /\ call[c].online /\ call[c].rejected
         /\ call[c].cached.present /\ TruthyData(call[c].cached.data))
            => call[c].result = Value(call[c].cached.data)

\* C10: fetchWithCache, offline, on a key under which nothing was ever
\* cached fails with the 'no cached data' error, invokes no remote fetch and
\* writes nothing to persistence.
C10_OfflineNoCacheFails ==
    \A c \in Calls :
        (OfflineDone(c) /\ ~everCached[call[c].key])
            => /\ call[c].result = Error(ErrNoCache)
               /\ call[c].fetches = 0
               /\ call[c].writes = 0
               /\ ~cache[call[c].key].present

C10_Witness ==
    \E c \in Calls :
        /\ OfflineDone(c) /\ ~everCached[call[c].key]
        /\ call[c].result = Error(ErrNoCache)

\* The call was made online without forceRefresh and has completed.
OnlineDone(c) ==
    call[c].pc = "done" /\ call[c].online /\ ~call[c].forceRefresh

\* C11 as stated: an online call without forceRefresh that finds a fresh
\* entry returns its value without invoking the remote fetch function.
C11_FreshHitWithoutFetch ==
    \A c \in Calls :
        (OnlineDone(c) /\ call[c].fresh.present)
            => /\ call[c].result = Value(call[c].fresh.data)
               /\ call[c].fetches = 0

\* C11, amended: an online call without forceRefresh that finds a fresh
\* entry with a truthy value returns that value without waiting for the
\* network and without writing, and it has invoked the remote fetch function
\* exactly once, for the refresh in the background.
C11_FreshHitRefreshesInBackground ==
    \A c \in Calls :
        (OnlineDone(c) /\ call[c].fresh.present /\ TruthyData(call[c].fresh.data))
            => /\ call[c].result = Value(call[c].fresh.data)
               /\ call[c].fetches = 1
               /\ call[c].writes = 0
               /\ ~call[c].rejected

C11_Witness ==
    \E c \in Calls :
        /\ OnlineDone(c) /\ call[c].fresh.present /\ TruthyData(call[c].fresh.data)
        /\ call[c].result = Value(call[c].fresh.data)
        /\ call[c].fetches = 1
        /\ refresh[c].pc = "fetching"

\* The call found the device online and was made with forceRefresh = true.
Forced(r) == r.online /\ r.forceRefresh /\ r.pc \notin {"idle", "checkOnline"}

\* C12: an online call with forceRefresh = true never consults the cache for
\* a fresh entry; it invokes the remote fetch exactly once, and when the
\* fetch succeeds the call returns the fetched value and the step that ends
\* it has replaced the stored entry (timestamp now, expiryMs as given).
C12_ForceRefreshFetchesAndReplaces ==
    [][\A c \in Calls :
          /\ Forced(call'[c]) =>
                /\ call'[c].fetches = 1
                /\ ~call'[c].fresh.present
                /\ (call'[c].pc = "done" /\ ~call'[c].rejected)
                       => /\ call'[c].result = Value(call'[c].data)
                          /\ call'[c].writes = 1
          /\ (Forced(call[c]) /\ call[c].pc = "setCache" /\ call'[c].pc = "done")
                => cache'[call[c].key] =
                       Entry(call[c].data, now, call[c].expiryMs)]_vars

\* A forced call has fetched a value that differs from the fresh entry in
\* the cache and is about to store it.
C12_Witness ==
    \E c \in Calls :
        /\ Forced(call[c]) /\ call[c].pc = "setCache"
        /\ call[c].fetches = 1
        /\ cache[call[c].key].present
        /\ TruthyData(cache[call[c].key].data)
        /\ ~isExpired(cache[call[c].key], call[c].expiryMs, now)
        /\ cache[call[c].key].data /= call[c].data

\* C13: no step of a fetchWithCache call removes a stored cache entry: an
\* entry that exists before the step exists after it.
C13_CallNeverRemovesEntry ==
    [][\A c \in Calls :
          call'[c] /= call[c]
              => \A k \in Keys : cache[k].present => cache'[k].present]_vars

\* The step in which a call returns the value its fetchFunction resolved to.
ReturnsFetched(c) == call[c].pc = "setCache" /\ call'[c].pc = "done"

----
\* Claims about the sync queue service: refusals and summaries.

\* A step of retryFailedFarm before syncSingleFarm: the lookup of the farm
\* or the connectivity check.
RetryCheckStep(t) ==
    /\ task[t].op = "retry"
    /\ task[t].pc \in {"retryLoad", "isConnected"}
    /\ task'[t] /= task[t] /\ task'[t].op = "retry"

\* C17 (as stated): a retryFailedFarm that is refused fails with 'No network
\* connection' whenever the device is offline, whatever the id and the
\* status; with 'Farm not found' when online and the id is absent; with 'Farm
\* is not in failed state' when online and the status is not failed; the
\* writer is not invoked and the queue is unchanged.
C17_OfflineRefusedFirst ==
    [][\A t \in Tasks :
          (RetryCheckStep(t) /\ task'[t].pc = "done") =>
              /\ task'[t].result =
                     IF ~syncOnline(netInfo) THEN "No network connection"
                     ELSE IF ~InQueue(farms, task[t].farm) THEN "Farm not found"
                     ELSE "Farm is not in failed state"
              /\ task'[t].invoked = <<>>
              /\ farms' = farms /\ created' = created]_vars

\* C17 (amended): retryFailedFarm looks the farm up first: it fails with
\* 'Farm not found' when the id is absent and with 'Farm is not in failed
\* state' when the status is not failed, online or offline; only for a farm
\* in failed state it checks connectivity, and fails with 'No network
\* connection' when offline. In the three cases the writer is not invoked
\* and the queue is unchanged.
C17_LookupRefusedFirst ==
    [][\A t \in Tasks :
          RetryCheckStep(t) =>
              /\ task'[t].invoked = <<>>
              /\ farms' = farms /\ created' = created
              /\ IF task[t].pc = "retryLoad"
                 THEN IF ~InQueue(farms, task[t].farm)
                      THEN task'[t].pc = "done" /\ task'[t].result = "Farm not found"
                      ELSE IF FarmOf(farms, task[t].farm).status /= "failed"
                      THEN /\ task'[t].pc = "done"
                           /\ task'[t].result = "Farm is not in failed state"
                      ELSE task'[t].pc = "isConnected"
                 ELSE IF ~syncOnline(netInfo)
                      THEN /\ task'[t].pc = "done"
                           /\ task'[t].result = "No network connection"
                      ELSE task'[t].pc = "updRead"]_vars

\* An offline retry of an id that is not queued has ended with 'Farm not
\* found'.
C17_Witness ==
    \E t \in Tasks :
        /\ task[t].op = "retry" /\ task[t].pc = "done"
        /\ task[t].result = "Farm not found"
        /\ ~InQueue(farms, task[t].farm)
        /\ ~syncOnline(netInfo)
        /\ task[t].invoked = <<>>

\* A step of syncAllFarms on its offline branch: the connectivity check that
\* reports offline, or the return that follows it.
SyncOfflineStep(t) ==
    /\ task[t].op = "sync"
    /\ \/ task[t].pc = "isConnected" /\ ~syncOnline(netInfo)
       \/ task[t].pc = "offlineCount"
    /\ task'[t] /= task[t] /\ task'[t].op = "sync"

\* What the steps of the offline branch leave alone: no writer is invoked,
\* the queue and the last-sync timestamp are unchanged.
SyncOfflineFrame(t) ==
    /\ farms' = farms /\ lastSync' = lastSync /\ created' = created
    /\ task'[t].invoked = <<>> /\ task'[t].results = <<>>
    /\ IF task[t].pc = "isConnected"
       THEN task'[t].pc = "offlineCount"
       ELSE task'[t].pc = "done" /\ task'[t].result = "No network connection"

\* C18 (as stated): syncAllFarms called while the connectivity check reports
\* offline invokes no writer, leaves the queue and the last-sync timestamp
\* unchanged and returns zero for all of its counts.
C18_OfflineReturnsZeroCounts ==
    [][\A t \in Tasks :
          SyncOfflineStep(t) =>
              /\ SyncOfflineFrame(t)
              /\ task'[t].pc = "done" => task'[t].pending = 0]_vars

\* C18 (amended): ... and returns synced 0, failed 0 and, as pending, the
\* current value of getPendingCount().
C18_OfflineReturnsPendingCount ==
    [][\A t \in Tasks :
          SyncOfflineStep(t) =>
              /\ SyncOfflineFrame(t)
              /\ task'[t].pc = "done" =>
                     task'[t].pending = getPendingCount(farms)]_vars

\* An offline syncAllFarms has returned, with a farm waiting in the queue.
C18_Witness ==
    \E t \in Tasks :
        /\ task[t].op = "sync" /\ task[t].pc = "done"
        /\ task[t].result = "No network connection"
        /\ task[t].pending = 1 /\ getPendingCount(farms) = 1
        /\ task[t].invoked = <<>> /\ lastSync = "null"

\* C19: within one syncAllFarms pass a failed remote write does not end the
\* batch: the outcomes are recorded farm by farm in the order of selection,
\* each with what the writer answered for that farm, the loop is left only
\* when every selected farm has its outcome, and the pass ends with a
\* summary, never with an error thrown to its caller.
C19_FailureNeverAbortsBatch ==
    \A t \in Tasks :
        task[t].op = "sync" =>
            LET r == task[t] IN
            /\ Len(r.results) <= Len(r.pendingFarms)
            /\ \A k \in 1..Len(r.results) :
                  /\ r.results[k].farmId = r.pendingFarms[k]
                  /\ r.results[k].success => created[r.pendingFarms[k]] > 0
                  /\ ~r.results[k].success => rejects[r.pendingFarms[k]] > 0
            /\ r.pc \in {"count", "stamp"} => Len(r.results) = Len(r.pendingFarms)
            /\ r.pc = "done" =>
                  /\ r.result \in {"complete", "No farms to sync",
                                   "No network connection"}
                  /\ r.result = "complete" =>
                         Len(r.results) = Len(r.pendingFarms)

\* A pass has completed whose first farm failed and whose second farm was
\* then written.
C19_Witness ==
    \E t \in Tasks :
        /\ task[t].op = "sync" /\ task[t].pc = "done" /\ task[t].result = "complete"
        /\ Len(task[t].results) = 2
        /\ ~task[t].results[1].success
        /\ task[t].results[2].success

\* The step with which an online syncAllFarms pass fixes its summary: the
\* early return when no farm is eligible, or, after the loop, the last look
\* of the pass at the queue (await this.getPendingCount()).
PassSummed(t) ==
    /\ task[t].op = "sync" /\ task'[t].op = "sync"
    /\ \/ task[t].pc = "load" /\ task'[t].pc = "done"
       \/ task[t].pc = "count" /\ task'[t].pc = "stamp"

\* C20: the summary an online syncAllFarms pass returns is consistent with
\* the queue: synced + failed (the number of results) is the number of farms
\* that were eligible when the pass selected them, and the returned pending
\* count is what getPendingCount() yields on the queue as the pass leaves
\* it; one pending farm with a succeeding writer gives synced 1, failed 0,
\* pending 0.
C20_SummaryMatchesQueue ==
    [][\A t \in Tasks :
          PassSummed(t) =>
              LET r == task'[t] IN
              /\ Len(r.results) = Len(r.pendingFarms)
              /\ task[t].pc = "load" => Len(pendingFarmsOf(farms)) = 0
              /\ r.pending = getPendingCount(farms')]_vars

\* The place of a farm in a queue.
PosIn(fs, id) == CHOOSE j \in 1..Len(fs) : fs[j].id = id

\* The ids of s are farms of the queue fs, in the order they have in it.
InOrderOf(fs, s) ==
    \A k, l \in 1..Len(s) :
        k < l => /\ InQueue(fs, s[k]) /\ InQueue(fs, s[l])
                 /\ PosIn(fs, s[k]) < PosIn(fs, s[l])

\* C30: within one syncAllFarms pass the selected farms go to the remote
\* writer in queue order (the queue is in the order of enqueueing): the
\* pass selects the eligible farms in the order they have in the queue it
\* read and keeps that selection, the farms it has passed to the writer are
\* the first ones of the selection in that order, and the writer is invoked
\* for a farm only when the outcome of every farm before it is recorded.
C30_WritesInQueueOrder ==
    [][\A t \in Tasks : task'[t].op = "sync" =>
          LET r == task'[t] IN
          /\ (task[t].pc = "load" /\ r.pc /= "load") =>
                /\ InOrderOf(farms, r.pendingFarms)
                /\ \A j \in 1..Len(farms) :
                      isEligible(farms[j]) =>
                          \E k \in 1..Len(r.pendingFarms) :
                              r.pendingFarms[k] = farms[j].id
          /\ (task[t].op = "sync" /\ task[t].pc /= "load") =>
                r.pendingFarms = task[t].pendingFarms
          /\ Len(r.invoked) <= Len(r.pendingFarms)
          /\ \A k \in 1..Len(r.invoked) : r.invoked[k] = r.pendingFarms[k]
          /\ Len(r.results) >= Len(r.invoked) - 1]_vars

\* A pass has the outcome of the first farm and is writing the second.
C30_Witness ==
    \E t \in Tasks :
        /\ task[t].op = "sync" /\ task[t].pc = "createFarm"
        /\ task[t].invoked = <<1, 2>>
        /\ Len(task[t].results) = 1 /\ task[t].results[1].farmId = 1

\* The operation state machine: the status changes syncSingleFarm is meant
\* to persist.
AllowedStatusChange ==
    {<<"pending", "syncing">>, <<"failed", "syncing">>,
     <<"syncing", "synced">>, <<"syncing", "failed">>}

\* C25: every persisted status change of a queued farm follows the state
\* machine pending -> syncing, failed -> syncing, syncing -> synced,
\* syncing -> failed: no write of the queue changes the stored status of a
\* farm in another way, and no updateFarmStatus stores a status over one it
\* may not follow (syncing over syncing, for instance).
C25_StatusStateMachine ==
    [][/\ \A id \in Ids :
             (/\ InQueue(farms, id) /\ InQueue(farms', id)
              /\ FarmOf(farms', id).status /= FarmOf(farms, id).status)
                 => <<FarmOf(farms, id).status, FarmOf(farms', id).status>>
                        \in AllowedStatusChange
       /\ \A t \in Tasks :
             (/\ task[t].pc = "updWrite" /\ task'[t].pc /= "updWrite"
              /\ task'[t].op = task[t].op
              /\ InQueue(farms, task[t].farm))
                 => <<FarmOf(farms, task[t].farm).status, task[t].st>>
                        \in AllowedStatusChange]_vars

\* The step in which a call receives the value of getPendingCount().
CountStep(t) ==
    /\ task[t].pc \in {"offlineCount", "count", "loadCount"}
    /\ task'[t].pc /= task[t].pc /\ task'[t].op = task[t].op

\* The queued farms with one of the given statuses.
WithStatus(fs, sts) == {j \in 1..Len(fs) : fs[j].status \in sts}

\* C22 (as stated): getPendingCount() is the number of queued farms that are
\* not yet done, whatever their status: pending, syncing or failed.
C22_CountsEveryFarmNotDone ==
    [][\A t \in Tasks :
          CountStep(t) =>
              task'[t].pending =
                  Cardinality(WithStatus(farms, {"pending", "syncing", "failed"}))]_vars

\* C22 (amended): getPendingCount() is the number of queued farms whose status
\* is pending or failed (whatever their retryCount); a farm that is in
\* flight (syncing), or synced and not yet removed, is not counted.
C22_CountsPendingAndFailed ==
    [][\A t \in Tasks :
          CountStep(t) =>
              task'[t].pending =
                  Cardinality(WithStatus(farms, {"pending", "failed"}))]_vars

\* An offline syncAllFarms has counted 0 while the one queued farm is in
\* flight in another call.
C22_Witness ==
    \E t, u \in Tasks :
        /\ task[t].op = "sync" /\ task[t].pc = "done"
        /\ task[t].result = "No network connection" /\ task[t].pending = 0
        /\ task[u].pc = "createFarm"
        /\ Len(farms) = 1 /\ farms[1].status = "syncing"
        /\ farms[1].retryCount > 0

\* The ids of the operations in a queue.
IdsOf(q) == {q[j].id : j \in 1..Len(q)}

\* C21: saveFarmOffline and saveOfflineOperation, when their write succeeds,
\* append exactly one new operation, with an id that no queued operation
\* has, status pending, retryCount 0 and lastError null, and leave every
\* operation that was queued unchanged and in its order; they make no remote
\* call.
C21_EnqueueAppendsOne ==
    [][/\ \A t \in Tasks :
             (task[t].pc = "saveWrite" /\ task'[t].pc = "loadCount") =>
                 /\ task[t].farm \notin IdsOf(farms)
                 /\ farms' = Append(farms, NewFarm(task[t].farm))
                 /\ created' = created /\ rejects' = rejects
       /\ \A o \in OpTasks :
             (opTask[o].pc = "opSaveWrite" /\ opTask'[o].pc = "done") =>
                 /\ opTask[o].id \notin IdsOf(ops)
                 /\ ops' = Append(ops, NewOp(opTask[o].id))]_vars

\* C26: no queued operation, farm or generic, is marked synced or reported
\* as delivered unless a remote writer call for it has completed
\* successfully before.
C26_SyncedOnlyAfterRemoteWrite ==
    /\ \A j \in 1..Len(farms) :
          farms[j].status = "synced" => created[farms[j].id] > 0
    /\ \A id \in Ids : Delivered(id) => created[id] > 0
    /\ \A j \in 1..Len(ops) :
          ops[j].status = "synced" => Len(writerCallsOf(ops[j].id)) > 0

\* No call of the sync queue service is in progress.
Quiescent ==
    /\ \A t \in Tasks : task[t] = IdleTask
    /\ \A o \in OpTasks : opTask[o] = IdleOpTask

\* C27: an operation that is synced is removed from the queue without any
\* user action: whenever no call is in progress (so that nothing is left
\* that would still remove it), no farm is queued with status synced and no
\* generic operation is queued that has been synced for the retention time
\* or longer.
C27_SyncedIsRemoved ==
    Quiescent =>
        /\ \A j \in 1..Len(farms) : farms[j].status /= "synced"
        /\ \A j \in 1..Len(ops) :
              ~(ops[j].status = "synced" /\ now - ops[j].syncedAt >= Retention)

\* C23: a failure of the durable write in saveFarmOffline is surfaced: the
\* step in which the write fails leaves the queue as it was and makes
\* saveFarmOffline reject, and onSubmit then ends with the 'Error' alert and
\* never with 'Saved Offline'; a submit leaves the write only by one of the
\* two ways, and with 'Saved Offline' only after the farm was written.
C23_PersistenceErrorSurfaced ==
    [][\A t \in Tasks : task'[t].op = "submit" =>
          /\ (task[t].pc = "saveWrite" /\ task'[t].pc /= "saveWrite") =>
                \/ task'[t].pc = "saveThrown" /\ farms' = farms
                \/ task'[t].pc = "loadCount" /\ InQueue(farms', task[t].farm)
          /\ (task[t].pc = "saveThrown" /\ task'[t].pc /= "saveThrown") =>
                /\ task'[t].pc = "done" /\ task'[t].result = "Error"
                /\ farms' = farms
          /\ (task'[t].pc = "done" /\ task[t].pc /= "done"
                /\ task'[t].result = "Saved Offline") => task[t].pc = "loadCount"]_vars

\* A submit has ended with the 'Error' alert after its write failed, while
\* another farm is queued: the farm is neither queued nor created.
C23_Witness ==
    \E t \in Tasks :
        /\ task[t].op = "submit" /\ task[t].pc = "done"
        /\ task[t].result = "Error"
        /\ ~InQueue(farms, task[t].farm)
        /\ created[task[t].farm] = 0
        /\ Len(farms) > 0

\* C24: when fetchFarmers cannot serve the read normally (its catch runs),
\* it settles with loading = false and in one of two ways: if a value is
\* cached for the farmers, even an expired one, with the cached farmers,
\* isOffline = true and error = 'Using offline data'; if nothing is cached,
\* with farmers = [], isOffline = true, the original error's message and a
\* rejection with that error.
C24_DegradedOrEmpty ==
    [][(store.pc \in {"getCachedFarmers", "rmCachedFarmers"} /\ store'.pc = "done") =>
          /\ store'.loading = FALSE
          /\ store'.isOffline = TRUE
          /\ IF cache[FarmersKey].present
             THEN /\ store'.farmers = cache[FarmersKey].data
                  /\ store'.error = UsingOffline
                  /\ store'.result = Value(cache[FarmersKey].data)
             ELSE /\ store'.farmers = NoFarmers
                  /\ store'.error = store.caught
                  /\ store'.result = Error(store.caught)]_vars

----
\* Claims about the automatic sync (checked under SpecListen).

\* C16: the network listener invokes syncAllFarms only on a transition from
\* offline to online: never on the first connectivity event after setup, and
\* never on an event that finds the device online when the previous event
\* had already found it online.
C16_SyncOnlyOnTransition ==
    \A t \in Tasks :
        (task[t].op = "sync" /\ task[t].trigger /= "none")
            => task[t].trigger = "up"

\* C15: without a crash, every enqueued farm is eventually written to the
\* remote API and removed from the queue, or reaches status = failed with
\* retryCount = 5. Whenever no call is in progress, then, every farm that
\* was submitted has been written, or waits in the queue in a state from
\* which this can still happen: eligible for the next pass (pending, or
\* failed below the ceiling), or failed at the ceiling. (From any other
\* state with no call in progress no later pass touches the farm.)
C15_NoFarmStranded ==
    (\A t \in Tasks : task[t] = IdleTask) =>
        \A id \in 1..(nextId - 1) :
            \/ created[id] > 0 /\ ~InQueue(farms, id)
            \/ /\ InQueue(farms, id)
               /\ FarmOf(farms, id).status \in {"pending", "failed"}

----
\* Claims about the cache service: freshness and background refresh.

\* The step in which the getItem of a getCache resolves with a stored entry.
GetCacheFound(c) ==
    /\ call[c].pc \in {"getOffline", "getOnline", "getFallback"}
    /\ call'[c] /= call[c]
    /\ cache[call[c].key].present

\* getCache goes on with the entry (it does not remove it as expired).
TreatedFresh(c) == call'[c].pc \notin {"rmOffline", "rmOnline", "rmFallback"}

\* The ttl of a lookup: the one given to getCache, else the stored one.
ttlOf(expiryMs, cached) == IF expiryMs /= Null THEN expiryMs ELSE cached.expiryMs

\* C28 (as stated): getCache treats an entry as fresh exactly when it has no
\* ttl or now - storedAt < ttl: an entry whose age equals its ttl is not
\* fresh, and with ttl = 0 an entry is never fresh.
C28_FreshIffYoungerThanTtl ==
    [][\A c \in Calls :
          GetCacheFound(c) =>
              LET cached == cache[call[c].key]
                  ttl == ttlOf(getCacheArg(call[c]), cached)
              IN  TreatedFresh(c) <=>
                      (ttl = Null \/ now - cached.timestamp < ttl)]_vars

\* C28 (amended): getCache treats an entry as fresh exactly when
\* maxAge = expiryMs || cached.expiryMs is null or 0, or
\* now - storedAt <= maxAge: an entry whose age equals its ttl is still
\* fresh, and a ttl of 0 counts as no ttl.
C28_FreshIffNotOlderThanMaxAge ==
    [][\A c \in Calls :
          GetCacheFound(c) =>
              LET cached == cache[call[c].key]
                  m == IF getCacheArg(call[c]) \notin {Null, 0}
                       THEN getCacheArg(call[c]) ELSE cached.expiryMs
              IN  TreatedFresh(c) <=>
                      (m \in {Null, 0} \/ now - cached.timestamp <= m)]_vars

\* A getCache has returned an entry whose age equals its ttl.
C28_Witness ==
    \E c \in Calls :
        /\ call[c].pc = "done" /\ call[c].fresh.present
        /\ call[c].expiryMs = MaxTtl
        /\ cache[call[c].key].present
        /\ call[c].at - cache[call[c].key].timestamp = MaxTtl
        /\ call[c].writes = 0

\* C29: on an online cache hit fetchWithCache returns the cached value while
\* the background fetch is still running; when that fetch resolves, its
\* result is stored over the entry; when it rejects, nothing reaches the
\* caller and the entry is left as it is.
C29_RefreshBehindTheCaller ==
    [][\A c \in Calls :
          /\ (call[c].pc = "getOnline" /\ call'[c].pc = "done") =>
                 /\ call'[c].result = Value(cache[call[c].key].data)
                 /\ refresh'[c].pc = "fetching"
          /\ (refresh[c].pc = "setCache" /\ refresh'[c] /= refresh[c]) =>
                 /\ cache'[refresh[c].key] =
                        Entry(refresh[c].data, now, refresh[c].expiryMs)
                 /\ call' = call
          /\ (refresh[c].pc = "fetching" /\ refresh'[c].pc = "none") =>
                 /\ cache' = cache
                 /\ call' = call]_vars

\* The caller holds the cached value while the background fetch has
\* resolved to another value that is about to be stored.
C29_Witness ==
    \E c \in Calls :
        /\ call[c].pc = "done" /\ call[c].online /\ call[c].fresh.present
        /\ call[c].result = Value(call[c].fresh.data)
        /\ refresh[c].pc = "setCache"
        /\ refresh[c].data /= call[c].fresh.data

----
\* Claims about overlapping calls, outcomes and agreement of the services.

\* C32: across overlapping passes no queued farm is created remotely more
\* than once, no farm is passed to the remote writer by two calls, and at
\* most one remote write of a queued farm is in flight.
C32_NoDoubleSubmission ==
    /\ \A id \in Ids : created[id] <= 1
    /\ \A t, u \in Tasks :
          t /= u => \A k \in 1..Len(task[t].invoked) :
                       \A l \in 1..Len(task[u].invoked) :
                           task[t].invoked[k] /= task[u].invoked[l]
    /\ Cardinality({t \in Tasks : task[t].pc = "createFarm"}) <= 1

\* C33: the read-modify-writes of the farm queue are atomic with respect
\* to each other: a farm leaves the queue only by its removeOfflineFarm, a
\* farm enters it only by its saveFarmOffline (no removed farm reappears),
\* a write of saveFarmOffline or removeOfflineFarm changes no other farm,
\* and after a write of updateFarmStatus the farm has the status written.
C33_QueueWritesAtomic ==
    [][/\ \A id \in Ids :
             (InQueue(farms, id) /\ ~InQueue(farms', id)) =>
                 \E t \in Tasks : task[t].pc = "rmWrite" /\ task[t].farm = id
       /\ \A id \in Ids :
             (~InQueue(farms, id) /\ InQueue(farms', id)) =>
                 \E t \in Tasks : /\ task[t].pc = "saveWrite" /\ task[t].farm = id
                                   /\ task'[t].pc = "loadCount"
       /\ \A t \in Tasks :
             (task[t].pc \in {"saveWrite", "rmWrite"} /\ task'[t] /= task[t]
                /\ task'[t].op = task[t].op) =>
                 \A id \in Ids \ {task[t].farm} :
                     InQueue(farms, id) =>
                         InQueue(farms', id) /\ FarmOf(farms', id) = FarmOf(farms, id)
       /\ \A t \in Tasks :
             (task[t].pc = "updWrite" /\ task'[t] /= task[t]
                /\ task'[t].op = task[t].op /\ InQueue(farms, task[t].farm)) =>
                 /\ InQueue(farms', task[t].farm)
                 /\ FarmOf(farms', task[t].farm).status = task[t].st]_vars

\* retryFailedFarm has resolved (it has not thrown).
RetryResolved(r) ==
    r.op = "retry" /\ r.pc = "done" /\ r.result \in {"success", "not synced"}

\* C35: retryFailedFarm resolves without error only if the remote write
\* succeeded: when it has resolved (and the modal shows 'Farm synced
\* successfully'), the farm was created remotely and is not in the queue.
C35_RetryReportsOutcome ==
    \A t \in Tasks :
        RetryResolved(task[t]) =>
            /\ task[t].result = "success"
            /\ created[task[t].farm] > 0
            /\ ~InQueue(farms, task[t].farm)

\* C36: offlineCacheService.checkOnline() and offlineSyncService.isConnected()
\* (and the test of AddFarmScreen.onSubmit) classify the platform's network
\* state in the same way.
C36_ServicesAgreeOnConnectivity ==
    cacheOnline(netInfo) = syncOnline(netInfo)

\* C37: getTotalPendingCount() is at least getPendingCount().
C37_TotalAtLeastFarms ==
    getTotalPendingCount(farms, ops) >= getPendingCount(farms)

\* C34: a failed read of the queue destroys no queued farm: when the
\* getOfflineFarms of saveFarmOffline, updateFarmStatus, removeOfflineFarm
\* or clearSyncedFarms has failed, every farm stored before the call's
\* write is stored after it (but for the farm removeOfflineFarm is to
\* remove and the synced farms clearSyncedFarms is to clear).
C34_ReadFailureKeepsQueue ==
    [][\A t \in Tasks :
          (/\ task[t].pc \in {"saveWrite", "updWrite", "rmWrite", "clearWrite"}
           /\ task[t].readFailed
           /\ task'[t] /= task[t] /\ task'[t].op = task[t].op) =>
              \A j \in 1..Len(farms) :
                  \/ InQueue(farms', farms[j].id)
                  \/ task[t].pc = "rmWrite" /\ farms[j].id = task[t].farm
                  \/ task[t].pc = "clearWrite" /\ farms[j].status = "synced"]_vars

\* A step of the syncAll call in slot o: of its syncAllFarms pass or of its
\* syncAllOperations.
SyncAllStep(o) ==
    /\ opTask[o].op = "syncAll" /\ opTask'[o].op = "syncAll"
    /\ \/ opTask'[o] /= opTask[o]
       \/ /\ opTask[o].pc = "syncAllFarms"
          /\ task'[opTask[o].farmsTask] /= task[opTask[o].farmsTask]

\* C39: syncAll, when the device is offline, changes no queued item: no
\* step of it changes the farm queue or the operation queue, and it reports
\* nothing as synced.
C39_SyncAllOfflineChangesNothing ==
    [][~netInfo.isConnected =>
          \A o \in OpTasks :
              SyncAllStep(o) =>
                  /\ farms' = farms
                  /\ ops' = ops
                  /\ opTask'[o].synced = 0
                  /\ task'[opTask[o].farmsTask].results = <<>>]_vars

----
\* Claims about the cache service's monitor and last-sync bookkeeping.

\* C31: the cache service's network monitor triggers its syncAll exactly
\* when connectivity has just come back: the last event delivered to the
\* listener called syncAll if and only if it found the device online while
\* the recorded state was offline.
C31_MonitorSyncsOnReturn ==
    svc.event /= "none" => (svc.fired <=> svc.event = "up")

\* The timestamp stored under the last-sync key for type t, when
\* updateLastSync(t) has recorded one after time 0.
Recorded(t) ==
    /\ lastSyncJson.present
    /\ t \in DOMAIN lastSyncJson.obj
    /\ lastSyncJson.obj[t] > 0

\* C38: last-sync bookkeeping round-trips per type: a getLastSync(t) that
\* reads the key after an updateLastSync(t) has written it returns the
\* recorded timestamp, and the write of an updateLastSync keeps the
\* timestamps recorded for the other types.
C38_LastSyncRoundTrip ==
    [][\A l \in LsCalls :
          /\ (/\ ls[l].op = "get" /\ ls[l].pc = "lsRead" /\ ls'[l].pc = "done"
              /\ Recorded(ls[l].type)) =>
                 ls'[l].result = lastSyncJson.obj[ls[l].type]
          /\ (ls[l].pc = "lsWrite" /\ ls'[l].pc = "done") =>
                 \A u \in LsTypes \ {ls[l].type} :
                     Recorded(u) =>
                         /\ u \in DOMAIN lastSyncJson'.obj
                         /\ lastSyncJson'.obj[u] = lastSyncJson.obj[u]]_vars

====
